---------------------------- MODULE Spec2Model ----------------------------
(***************************************************************************)
(* Model of the SMS delivery engine of sms_service.py (class SMSService):  *)
(* construction, send_bulk_sms, send_sms, _send_single_sms,                *)
(* _is_retryable_error and split_long_message.                             *)
(*                                                                         *)
(* A Python str is a sequence of one-character strings.  A Python dict is  *)
(* a record; a key the dict does not have is a field the record does not   *)
(* have.  str(e) of an exception and the f-string error texts are tuples   *)
(* whose first element is the fixed text.  Durations are in seconds;       *)
(* doubling a float is exact, so delays are integers.                      *)
(***************************************************************************)
EXTENDS Integers, Sequences, FiniteSets, TLC

(* ------------------------------ bounds -------------------------------- *)
MaxRecipients == 3
MaxRetriesBound == 4
MaxFaults == 3
MaxSegments == 3
MaxWords == 4
MaxLimit == 14

(* ------------------------- small string helpers ----------------------- *)
Rep(c, n) == [k \in 1..n |-> c]

Min(a, b) == IF a <= b THEN a ELSE b

IsWhitespace(c) == c \in {" ", "\n", "\t"}

\* str.split(' '): cut at every single space, empty words kept.
\* SpacesIn lists the positions of the spaces of s[lo..hi] in ascending order.
RECURSIVE SpacesIn(_, _, _)
SpacesIn(s, lo, hi) ==
    IF lo > hi THEN <<>>
    ELSE IF lo = hi THEN (IF s[lo] = " " THEN <<lo>> ELSE <<>>)
    ELSE LET mid == (lo + hi) \div 2
         IN SpacesIn(s, lo, mid) \o SpacesIn(s, mid + 1, hi)

SplitSpace(s) ==
    LET sp == SpacesIn(s, 1, Len(s))
        n == Len(sp) + 1
    IN [j \in 1..n |->
          SubSeq(s, IF j = 1 THEN 1 ELSE sp[j - 1] + 1,
                    IF j = n THEN Len(s) ELSE sp[j] - 1)]

\* str.strip(): drop leading and trailing whitespace
Strip(s) ==
    IF \A k \in 1..Len(s) : IsWhitespace(s[k]) THEN <<>>
    ELSE LET first == CHOOSE k \in 1..Len(s) :
                         ~IsWhitespace(s[k]) /\ \A j \in 1..(k - 1) : IsWhitespace(s[j])
             last == CHOOSE k \in 1..Len(s) :
                         ~IsWhitespace(s[k]) /\ \A j \in (k + 1)..Len(s) : IsWhitespace(s[j])
         IN SubSeq(s, first, last)

\* str(n) for n >= 0, as in the f-string of the part marker
Digit(d) == <<"0", "1", "2", "3", "4", "5", "6", "7", "8", "9">>[d + 1]

RECURSIVE IntToStr(_)
IntToStr(n) == IF n < 10 THEN <<Digit(n)>> ELSE Append(IntToStr(n \div 10), Digit(n % 10))

(* --------------------------- split_long_message ----------------------- *)
MarkerBudget == 11

\* HardSlices with only the full slices kept: what is left over after the
\* last full slice is dropped
HardSlices_DropsTail(word, eff) ==
    IF eff < 0 THEN <<>>
    ELSE [j \in 1..(Len(word) \div eff) |->
            SubSeq(word, (j - 1) * eff + 1, j * eff)]

\* [word[i:i + eff] for i in range(0, len(word), eff)], lines 327-328: a
\* negative step makes the range empty (a step of 0 raises, see SplitRaises)
HardSlices(word, eff) ==
    IF eff < 0 THEN <<>>
    ELSE [j \in 1..((Len(word) + eff - 1) \div eff) |->
            SubSeq(word, (j - 1) * eff + 1, Min(j * eff, Len(word)))]

\* lines 323, 339, 344: chunks.append(current_chunk.strip()) if current_chunk
Flush(st) ==
    IF st.current_chunk # <<>>
    THEN Append(st.chunks, Strip(st.current_chunk)) ELSE st.chunks

\* PackWord closing the current chunk before every word: one word per chunk
PackWord_OneWordPerChunk(st, word, eff) ==
    IF Len(word) > eff
    THEN [chunks |-> Flush(st) \o HardSlices(word, eff), current_chunk |-> <<>>]
    ELSE [chunks |-> Flush(st), current_chunk |-> word]

\* lines 319-340: one pass of the loop body, on the state (chunks, current_chunk)
PackWord(st, word, eff) ==
    IF Len(word) > eff
    THEN [chunks |-> Flush(st) \o HardSlices(word, eff), current_chunk |-> <<>>]
    ELSE LET test_chunk == IF st.current_chunk # <<>>
                           THEN st.current_chunk \o <<" ">> \o word ELSE word
         IN IF Len(test_chunk) <= eff
            THEN [chunks |-> st.chunks, current_chunk |-> test_chunk]
            ELSE [chunks |-> Flush(st), current_chunk |-> word]

\* line 318: the loop body applied to words[lo..hi] in order (the range is
\* halved so that the evaluation stays shallow)
RECURSIVE PackRange(_, _, _, _, _)
PackRange(st, words, lo, hi, eff) ==
    IF lo > hi THEN st
    ELSE IF lo = hi THEN PackWord(st, words[lo], eff)
    ELSE LET mid == (lo + hi) \div 2
             left == PackRange(st, words, lo, mid, eff)
         IN IF Len(left.chunks) >= 0   \* the first half is worked out first
            THEN PackRange(left, words, mid + 1, hi, eff)
            ELSE st

\* lines 312-344
Pack(words, eff) ==
    Flush(PackRange([chunks |-> <<>>, current_chunk |-> <<>>], words, 1, Len(words), eff))

Marker(i, n) == <<"[">> \o IntToStr(i) \o <<"/">> \o IntToStr(n) \o <<"]", " ">>

\* AddPartNumbers numbering the parts from 0, as enumerate does
AddPartNumbers_ZeroBased(chunk_list) ==
    IF Len(chunk_list) > 1
    THEN [i \in 1..Len(chunk_list) |-> Marker(i - 1, Len(chunk_list)) \o chunk_list[i]]
    ELSE chunk_list

\* AddPartNumbers with the marker put on a single chunk too
AddPartNumbers_Always(chunk_list) ==
    [i \in 1..Len(chunk_list) |-> Marker(i, Len(chunk_list)) \o chunk_list[i]]

AddPartNumbers(chunk_list) ==
    IF Len(chunk_list) > 1
    THEN [i \in 1..Len(chunk_list) |-> Marker(i, Len(chunk_list)) \o chunk_list[i]]
    ELSE chunk_list

\* line 327 raises ValueError (range() arg 3 must not be zero) when the
\* effective length is 0 and a word has to be sliced
SplitRaises(msg, limit) ==
    /\ Len(msg) > limit
    /\ limit - MarkerBudget = 0
    /\ \E k \in 1..Len(msg) : msg[k] # " "

\* the list split_long_message(message, max_length) returns when it does not
\* raise
split_long_message(msg, limit) ==
    IF Len(msg) <= limit THEN <<msg>>
    ELSE AddPartNumbers(Pack(SplitSpace(msg), limit - MarkerBudget))


(* --------------------------- _is_retryable_error ---------------------- *)
non_retryable_codes == {21211, 21214, 21408, 21610}

retryable_codes == {20429, 20500, 20503}

\* _is_retryable_error with the status looked at before the terminal table
_is_retryable_error_StatusFirst(error) ==
    IF error.status >= 500 THEN TRUE
    ELSE IF error.code \in non_retryable_codes THEN FALSE
    ELSE error.code \in retryable_codes

\* _is_retryable_error without the status clause of line 251
_is_retryable_error_CodesOnly(error) ==
    IF error.code \in non_retryable_codes THEN FALSE
    ELSE error.code \in retryable_codes

_is_retryable_error(error) ==
    IF error.code \in non_retryable_codes THEN FALSE
    ELSE error.code \in retryable_codes \/ error.status >= 500

\* what TwilioRestException the transport may raise: every listed code, a
\* code of neither table, and statuses on both sides of 500
UnlistedCodes == {21612}

AllCodes == non_retryable_codes \cup retryable_codes \cup UnlistedCodes

AllStatuses == {400, 500}

AllErrors == [code : AllCodes, status : AllStatuses]

\* the TwilioRestException raised in the calls made below send_sms and
\* send_bulk_sms: a terminal one (what is retried there is the other Exception)
ClassErrors == { [code |-> 21211, status |-> 400] }

(* ------------------------------ __init__ ------------------------------ *)
\* an optional argument is <<>> (None) or <<value>>
ModeStrings == {"segment", "long", "SEGMENT", "Long", "mms", ""}

Lower(s) == CASE s = "SEGMENT" -> "segment" [] s = "Long" -> "long" [] OTHER -> s

\* x or y
OrElse(x, y) == IF x = <<>> \/ x = <<"">> THEN y ELSE x[1]

\* os.getenv('SMS_MODE', 'segment')
GetenvMode(env_mode) == IF env_mode = <<>> THEN "segment" ELSE env_mode[1]

ResolveMode(sms_mode_arg, env_mode) == Lower(OrElse(sms_mode_arg, GetenvMode(env_mode)))

\* ModeAccepted without the test of line 45: no mode is refused
ModeAccepted_Any(mode) == TRUE

ModeAccepted(mode) == mode \in {"segment", "long"}

MaxLengthOf(mode) == IF mode = "segment" THEN 120 ELSE 1600

\* construction raises ValueError on an unknown mode, or on missing
\* credentials outside dry-run
CtorRaises(dry, sms_mode_arg, env_mode, creds) ==
    \/ ~ModeAccepted(ResolveMode(sms_mode_arg, env_mode))
    \/ (~dry /\ ~creds)

(* ------------------------------- inputs ------------------------------- *)
\* the recipient lists: the first n subscribers, one number subscribed twice
Subscriber(k) == IF k % 2 = 1 THEN "+15550001" ELSE "+15550002"

RecipientLists == { [k \in 1..n |-> Subscriber(k)] : n \in 0..MaxRecipients }

RetryChoices == {-1} \cup (0..MaxRetriesBound)

DefaultInitialDelay == 1

DelayChoices == {DefaultInitialDelay, 3}

InterSegmentDelay == 5

MsgShort == <<"h", "i">>

MsgTwo == Rep("a", 60) \o <<" ">> \o Rep("b", 60)

MsgThree == Rep("a", 60) \o <<" ">> \o Rep("b", 60) \o <<" ">> \o Rep("c", 60)

MsgSpaces == Rep(" ", 121)

MsgLong == Rep("a", 800) \o <<" ">> \o Rep("b", 800)

\* the messages handed to send_sms, and those handed to send_bulk_sms
Messages == {MsgShort, MsgTwo, MsgThree, MsgSpaces, MsgLong}

BulkMessages == {MsgShort, MsgTwo, MsgSpaces}

\* line 84: split_long_message(message, self.max_length) for the messages
\* above at the two values max_length can have, worked out once
ChunksAt(msg, limit) == <<msg, limit>> :> split_long_message(msg, limit)

ChunksOf ==
    ChunksAt(MsgShort, 120) @@ ChunksAt(MsgShort, 1600) @@
    ChunksAt(MsgTwo, 120) @@ ChunksAt(MsgTwo, 1600) @@
    ChunksAt(MsgThree, 120) @@ ChunksAt(MsgThree, 1600) @@
    ChunksAt(MsgSpaces, 120) @@ ChunksAt(MsgSpaces, 1600) @@
    ChunksAt(MsgLong, 120) @@ ChunksAt(MsgLong, 1600)

(* ------------------------------- state -------------------------------- *)
VARIABLES
    pc,            \* where control is
    dry_run, sms_mode, max_length,   \* self.dry_run, self.sms_mode, self.max_length
    entry,         \* which method the caller invoked: "bulk", "sms", "single"
    recipients, message, max_retries, initial_delay,  \* its arguments
    arg_max_length,   \* the argument max_length of a call of split_long_message
    results, ri,   \* send_bulk_sms: the report, and how many recipients were taken
    to_number, multi, chunks, seg, all_results,       \* send_sms
    body, attempt, delay,                             \* _send_single_sms
    ret,           \* the value a method has just returned: <<>> or <<dict>>
    trace,         \* every transport call and every time.sleep, in order
    faults,        \* transport calls that have raised during this invocation
    subscribers,   \* DailyNewsService.run: the loaded subscriber list
    articles_cache, summaries_cache,   \* self.articles_cache, self.summaries_cache
    ci,            \* generate_summaries: how many categories were taken
    summarized     \* what the summarizer did for each category taken, in order

config == <<dry_run, sms_mode, max_length>>
args == <<entry, recipients, message, max_retries, initial_delay, arg_max_length>>
bulk_frame == <<results, ri>>
sms_frame == <<to_number, multi, chunks, seg, all_results>>
single_frame == <<body, attempt, delay>>
news_frame == <<subscribers, articles_cache, summaries_cache, ci, summarized>>
vars == <<pc, config, args, bulk_frame, sms_frame, single_frame, ret, trace, faults,
          news_frame>>

NoResults == [total |-> 0, successful |-> 0, failed |-> 0, details |-> <<>>]

\* no DailyNewsService at work
NewsIdle ==
    /\ subscribers = <<>> /\ articles_cache = <<>> /\ summaries_cache = <<>>
    /\ ci = 0 /\ summarized = <<>>

Idle ==
    /\ entry = "none" /\ recipients = <<>> /\ message = <<>>
    /\ max_retries = 0 /\ initial_delay = 0 /\ arg_max_length = 0
    /\ results = NoResults /\ ri = 0
    /\ to_number = "" /\ multi = FALSE /\ chunks = <<>> /\ seg = 0 /\ all_results = <<>>
    /\ body = <<>> /\ attempt = 0 /\ delay = 0
    /\ ret = <<>> /\ trace = <<>> /\ faults = 0
    /\ NewsIdle

Init ==
    /\ \E dry \in BOOLEAN, creds \in BOOLEAN,
          sms_mode_arg \in {<<>>} \cup { <<m>> : m \in ModeStrings },
          env_mode \in {<<>>} \cup { <<m>> : m \in ModeStrings } :
           /\ dry_run = dry
           /\ sms_mode = ResolveMode(sms_mode_arg, env_mode)
           /\ IF CtorRaises(dry, sms_mode_arg, env_mode, creds)
              THEN pc = "rejected" /\ max_length = 0
              ELSE pc = "ready" /\ max_length = MaxLengthOf(sms_mode)
    /\ Idle

(* ------------------------ the transport and time ---------------------- *)
\* client.messages.create(body=.., to=..) returning (why = "ok") or raising
CallEvent(why, err) ==
    [kind |-> "call", why |-> why, r |-> ri, seg |-> seg, to |-> to_number,
     body |-> body, secs |-> 0, err |-> err]

\* time.sleep(secs): why is "backoff" (lines 201, 210) or "pacing" (line 109)
SleepEvent(why, secs) ==
    [kind |-> "sleep", why |-> why, r |-> ri, seg |-> seg, to |-> to_number,
     body |-> <<>>, secs |-> secs, err |-> <<>>]

OkCalls(t) == { p \in 1..Len(t) : t[p].kind = "call" /\ t[p].why = "ok" }

\* message_obj.sid: the transport numbers the messages it accepts
NextSid == <<"SM", Cardinality(OkCalls(trace)) + 1>>

FaultChoices == IF entry = "single" THEN AllErrors ELSE ClassErrors

\* str(e) of a TwilioRestException
ErrorText(e) == <<"TwilioRestException", e.status, e.code>>

(* ------------------------- _send_single_sms --------------------------- *)
\* where _send_single_sms returns to
AfterSingle == IF entry = "single" THEN "done" ELSE "single_ret"

\* lines 145-156
SingleDryRun ==
    /\ pc = "single_entry" /\ dry_run
    /\ ret' = << [success |-> TRUE, to |-> to_number, sid |-> <<"DRY_RUN_SID">>,
                  status |-> "simulated", attempts |-> 1, dry_run |-> TRUE] >>
    /\ pc' = AfterSingle
    /\ UNCHANGED <<news_frame, config, args, bulk_frame, sms_frame, single_frame, trace, faults>>

\* SingleBegin with the delay kept in the service between sends: only the
\* first send starts from initial_delay
SingleBegin_KeepsDelay ==
    /\ pc = "single_entry" /\ ~dry_run
    /\ attempt' = 0
    /\ delay' = IF delay = 0 THEN initial_delay ELSE delay
    /\ pc' = "retry_loop"
    /\ UNCHANGED <<news_frame, config, args, bulk_frame, sms_frame, body, ret, trace, faults>>

\* lines 158-159
SingleBegin ==
    /\ pc = "single_entry" /\ ~dry_run
    /\ attempt' = 0
    /\ delay' = initial_delay
    /\ pc' = "retry_loop"
    /\ UNCHANGED <<news_frame, config, args, bulk_frame, sms_frame, body, ret, trace, faults>>

\* lines 161-180: the transport accepts the message
AttemptOk ==
    /\ pc = "retry_loop" /\ attempt < max_retries
    /\ trace' = Append(trace, CallEvent("ok", <<>>))
    /\ ret' = << [success |-> TRUE, to |-> to_number, sid |-> NextSid,
                  status |-> "queued", attempts |-> attempt + 1] >>
    /\ pc' = AfterSingle
    /\ UNCHANGED <<news_frame, config, args, bulk_frame, sms_frame, single_frame, faults>>

\* AttemptTwilioError without lines 186-196: a terminal verdict is ignored
\* and the error is retried like any other
AttemptTwilioError_NoShortCircuit(e) ==
    /\ pc = "retry_loop" /\ attempt < max_retries
    /\ faults < MaxFaults
    /\ faults' = faults + 1
    /\ attempt' = attempt + 1
    /\ IF attempt' < max_retries
       THEN /\ trace' = trace \o <<CallEvent("twilio", <<e>>),
                                   SleepEvent("backoff", delay)>>
            /\ delay' = delay * 2
       ELSE /\ trace' = Append(trace, CallEvent("twilio", <<e>>))
            /\ delay' = delay
    /\ UNCHANGED <<news_frame, pc, config, args, bulk_frame, sms_frame, body, ret>>

\* AttemptTwilioError with the delay growing by initial_delay per retry
\* instead of doubling
AttemptTwilioError_LinearBackoff(e) ==
    /\ pc = "retry_loop" /\ attempt < max_retries
    /\ faults < MaxFaults
    /\ faults' = faults + 1
    /\ attempt' = attempt + 1
    /\ IF ~_is_retryable_error(e)
       THEN /\ trace' = Append(trace, CallEvent("twilio", <<e>>))
            /\ ret' = << [success |-> FALSE, to |-> to_number, error |-> ErrorText(e),
                          error_code |-> e.code, attempts |-> attempt',
                          retryable |-> FALSE] >>
            /\ pc' = AfterSingle
            /\ delay' = delay
       ELSE /\ IF attempt' < max_retries
               THEN /\ trace' = trace \o <<CallEvent("twilio", <<e>>),
                                           SleepEvent("backoff", delay)>>
                    /\ delay' = delay + initial_delay
               ELSE /\ trace' = Append(trace, CallEvent("twilio", <<e>>))
                    /\ delay' = delay
            /\ pc' = "retry_loop"
            /\ ret' = ret
    /\ UNCHANGED <<news_frame, config, args, bulk_frame, sms_frame, body>>

\* lines 161-170, 182-202: the transport raises TwilioRestException e
AttemptTwilioError(e) ==
    /\ pc = "retry_loop" /\ attempt < max_retries
    /\ faults < MaxFaults
    /\ faults' = faults + 1
    /\ attempt' = attempt + 1
    /\ IF ~_is_retryable_error(e)
       THEN /\ trace' = Append(trace, CallEvent("twilio", <<e>>))
            /\ ret' = << [success |-> FALSE, to |-> to_number, error |-> ErrorText(e),
                          error_code |-> e.code, attempts |-> attempt',
                          retryable |-> FALSE] >>
            /\ pc' = AfterSingle
            /\ delay' = delay
       ELSE /\ IF attempt' < max_retries
               THEN /\ trace' = trace \o <<CallEvent("twilio", <<e>>),
                                           SleepEvent("backoff", delay)>>
                    /\ delay' = delay * 2
               ELSE /\ trace' = Append(trace, CallEvent("twilio", <<e>>))
                    /\ delay' = delay
            /\ pc' = "retry_loop"
            /\ ret' = ret
    /\ UNCHANGED <<news_frame, config, args, bulk_frame, sms_frame, body>>

\* AttemptException without attempt += 1 of line 205
AttemptException_NoCount ==
    /\ pc = "retry_loop" /\ attempt < max_retries
    /\ faults < MaxFaults
    /\ faults' = faults + 1
    /\ attempt' = attempt
    /\ trace' = trace \o <<CallEvent("exception", <<>>), SleepEvent("backoff", delay)>>
    /\ delay' = delay * 2
    /\ UNCHANGED <<news_frame, pc, config, args, bulk_frame, sms_frame, body, ret>>

\* AttemptException without the except clause: the exception leaves
\* _send_single_sms and every caller above it
AttemptException_Propagates ==
    /\ pc = "retry_loop" /\ attempt < max_retries
    /\ faults < MaxFaults
    /\ faults' = faults + 1
    /\ trace' = Append(trace, CallEvent("exception", <<>>))
    /\ pc' = "raised"
    /\ UNCHANGED <<news_frame, config, args, bulk_frame, sms_frame, single_frame, ret>>

\* AttemptException without the test of line 208: it sleeps after the last
\* attempt too
AttemptException_SleepsAfterLast ==
    /\ pc = "retry_loop" /\ attempt < max_retries
    /\ faults < MaxFaults
    /\ faults' = faults + 1
    /\ attempt' = attempt + 1
    /\ trace' = trace \o <<CallEvent("exception", <<>>), SleepEvent("backoff", delay)>>
    /\ delay' = delay * 2
    /\ UNCHANGED <<news_frame, pc, config, args, bulk_frame, sms_frame, body, ret>>

\* lines 161-170, 204-211: the transport raises any other Exception
AttemptException ==
    /\ pc = "retry_loop" /\ attempt < max_retries
    /\ faults < MaxFaults
    /\ faults' = faults + 1
    /\ attempt' = attempt + 1
    /\ IF attempt' < max_retries
       THEN /\ trace' = trace \o <<CallEvent("exception", <<>>),
                                   SleepEvent("backoff", delay)>>
            /\ delay' = delay * 2
       ELSE /\ trace' = Append(trace, CallEvent("exception", <<>>))
            /\ delay' = delay
    /\ UNCHANGED <<news_frame, pc, config, args, bulk_frame, sms_frame, body, ret>>

\* lines 161, 213-221: the while condition is false
RetriesExceeded ==
    /\ pc = "retry_loop" /\ ~(attempt < max_retries)
    /\ ret' = << [success |-> FALSE, to |-> to_number,
                  error |-> <<"Max retries exceeded">>,
                  attempts |-> max_retries, retryable |-> TRUE] >>
    /\ pc' = AfterSingle
    /\ UNCHANGED <<news_frame, config, args, bulk_frame, sms_frame, single_frame, trace, faults>>

(* ------------------------------ send_sms ------------------------------ *)
\* where send_sms returns to
AfterSms == IF entry = "sms" THEN "done" ELSE "sms_ret"

\* EnterSendSms with the position in the chunks kept from the send before:
\* the loop goes on where the one of the recipient before stopped
EnterSendSms_KeepsPosition(to, msg) ==
    /\ to_number' = to
    /\ all_results' = <<>>
    /\ IF Len(msg) > max_length
       THEN /\ multi' = TRUE
            /\ seg' = IF chunks = ChunksOf[<<msg, max_length>>] THEN seg ELSE 0
            /\ chunks' = ChunksOf[<<msg, max_length>>]
            /\ body' = body
            /\ pc' = "seg_loop"
       ELSE /\ multi' = FALSE
            /\ seg' = 0
            /\ chunks' = <<>>
            /\ body' = msg
            /\ pc' = "single_entry"

\* EnterSendSms with a message that fits trimmed before it is sent
EnterSendSms_TrimsShort(to, msg) ==
    /\ to_number' = to
    /\ seg' = 0
    /\ all_results' = <<>>
    /\ IF Len(msg) > max_length
       THEN /\ multi' = TRUE
            /\ chunks' = ChunksOf[<<msg, max_length>>]
            /\ body' = body
            /\ pc' = "seg_loop"
       ELSE /\ multi' = FALSE
            /\ chunks' = <<>>
            /\ body' = Strip(msg)
            /\ pc' = "single_entry"

\* lines 81-89 and 123: send_sms(to, msg, ..) up to its first call of
\* _send_single_sms or the head of the loop over chunks
EnterSendSms(to, msg) ==
    /\ to_number' = to
    /\ seg' = 0
    /\ all_results' = <<>>
    /\ IF Len(msg) > max_length
       THEN /\ multi' = TRUE
            /\ chunks' = ChunksOf[<<msg, max_length>>]
            /\ body' = body
            /\ pc' = "seg_loop"
       ELSE /\ multi' = FALSE
            /\ chunks' = <<>>
            /\ body' = msg
            /\ pc' = "single_entry"

\* SegNext walking the chunks from the last to the first
SegNext_Reversed ==
    /\ pc = "seg_loop" /\ seg < Len(chunks)
    /\ seg' = seg + 1
    /\ body' = chunks[Len(chunks) - seg]
    /\ pc' = "single_entry"
    /\ UNCHANGED <<news_frame, config, args, bulk_frame, to_number, multi, chunks, all_results,
                   attempt, delay, ret, trace, faults>>

\* lines 89-91: the next chunk is handed to _send_single_sms
SegNext ==
    /\ pc = "seg_loop" /\ seg < Len(chunks)
    /\ seg' = seg + 1
    /\ body' = chunks[seg + 1]
    /\ pc' = "single_entry"
    /\ UNCHANGED <<news_frame, config, args, bulk_frame, to_number, multi, chunks, all_results,
                   attempt, delay, ret, trace, faults>>

\* SegAllSent with the sids collected from the last result to the first
SegAllSent_SidsReversed ==
    /\ pc = "seg_loop" /\ seg = Len(chunks)
    /\ ret' = << [success |-> TRUE, to |-> to_number, segments_sent |-> Len(chunks),
                  total_segments |-> Len(chunks),
                  sids |-> [k \in 1..Len(all_results) |->
                              all_results[Len(all_results) + 1 - k].sid],
                  details |-> all_results] >>
    /\ pc' = AfterSms
    /\ UNCHANGED <<news_frame, config, args, bulk_frame, sms_frame, single_frame, trace, faults>>

\* lines 111-120: the loop over chunks has ended
SegAllSent ==
    /\ pc = "seg_loop" /\ seg = Len(chunks)
    /\ ret' = << [success |-> TRUE, to |-> to_number, segments_sent |-> Len(chunks),
                  total_segments |-> Len(chunks),
                  sids |-> [k \in 1..Len(all_results) |-> all_results[k].sid],
                  details |-> all_results] >>
    /\ pc' = AfterSms
    /\ UNCHANGED <<news_frame, config, args, bulk_frame, sms_frame, single_frame, trace, faults>>

\* SmsAfterSingle without the test of line 107: it waits after the last
\* segment too
SmsAfterSingle_PacesAfterLast ==
    /\ pc = "single_ret"
    /\ LET result == ret[1] IN
       IF ~multi
       THEN /\ pc' = AfterSms
            /\ UNCHANGED <<ret, all_results, trace>>
       ELSE /\ all_results' = Append(all_results, result)
            /\ IF ~result.success
               THEN /\ ret' = << [success |-> FALSE, to |-> to_number,
                                  error |-> <<"Failed on segment", seg, Len(chunks)>>,
                                  segments_sent |-> seg - 1,
                                  total_segments |-> Len(chunks),
                                  details |-> all_results'] >>
                    /\ pc' = AfterSms
                    /\ trace' = trace
               ELSE /\ ret' = <<>>
                    /\ pc' = "seg_loop"
                    /\ trace' = Append(trace, SleepEvent("pacing", InterSegmentDelay))
    /\ UNCHANGED <<news_frame, config, args, bulk_frame, to_number, multi, chunks, seg,
                   single_frame, faults>>

\* SmsAfterSingle with the failed segment counted among those sent
SmsAfterSingle_CountsFailedSegment ==
    /\ pc = "single_ret"
    /\ LET result == ret[1] IN
       IF ~multi
       THEN /\ pc' = AfterSms
            /\ UNCHANGED <<ret, all_results, trace>>
       ELSE /\ all_results' = Append(all_results, result)
            /\ IF ~result.success
               THEN /\ ret' = << [success |-> FALSE, to |-> to_number,
                                  error |-> <<"Failed on segment", seg, Len(chunks)>>,
                                  segments_sent |-> seg,
                                  total_segments |-> Len(chunks),
                                  details |-> all_results'] >>
                    /\ pc' = AfterSms
                    /\ trace' = trace
               ELSE /\ ret' = <<>>
                    /\ pc' = "seg_loop"
                    /\ trace' = IF seg < Len(chunks)
                                THEN Append(trace, SleepEvent("pacing", InterSegmentDelay))
                                ELSE trace
    /\ UNCHANGED <<news_frame, config, args, bulk_frame, to_number, multi, chunks, seg,
                   single_frame, faults>>

\* SmsAfterSingle starting over from the first segment when a segment fails
SmsAfterSingle_RestartsOnFailure ==
    /\ pc = "single_ret"
    /\ LET result == ret[1] IN
       IF ~multi
       THEN /\ pc' = AfterSms
            /\ UNCHANGED <<ret, all_results, trace, seg>>
       ELSE IF ~result.success
            THEN /\ all_results' = <<>>
                 /\ seg' = 0
                 /\ ret' = <<>>
                 /\ pc' = "seg_loop"
                 /\ trace' = trace
            ELSE /\ all_results' = Append(all_results, result)
                 /\ seg' = seg
                 /\ ret' = <<>>
                 /\ pc' = "seg_loop"
                 /\ trace' = IF seg < Len(chunks)
                             THEN Append(trace, SleepEvent("pacing", InterSegmentDelay))
                             ELSE trace
    /\ UNCHANGED <<news_frame, config, args, bulk_frame, to_number, multi, chunks,
                   single_frame, faults>>

\* lines 92-109 (in the loop) and 123 (single message): _send_single_sms
\* has returned ret[1]
\* SmsAfterSingle with the wait of lines 107-109 left out in dry-run
SmsAfterSingle_NoPacingInDryRun ==
    /\ pc = "single_ret"
    /\ LET result == ret[1] IN
       IF ~multi
       THEN /\ pc' = AfterSms
            /\ UNCHANGED <<ret, all_results, trace>>
       ELSE /\ all_results' = Append(all_results, result)
            /\ IF ~result.success
               THEN /\ ret' = << [success |-> FALSE, to |-> to_number,
                                  error |-> <<"Failed on segment", seg, Len(chunks)>>,
                                  segments_sent |-> seg - 1,
                                  total_segments |-> Len(chunks),
                                  details |-> all_results'] >>
                    /\ pc' = AfterSms
                    /\ trace' = trace
               ELSE /\ ret' = <<>>
                    /\ pc' = "seg_loop"
                    /\ trace' = IF seg < Len(chunks) /\ ~dry_run
                                THEN Append(trace, SleepEvent("pacing", InterSegmentDelay))
                                ELSE trace
    /\ UNCHANGED <<news_frame, config, args, bulk_frame, to_number, multi, chunks, seg,
                   single_frame, faults>>

\* SmsAfterSingle with the failed result left out of the details
SmsAfterSingle_DropsFailedDetail ==
    /\ pc = "single_ret"
    /\ LET result == ret[1] IN
       IF ~multi
       THEN /\ pc' = AfterSms
            /\ UNCHANGED <<ret, all_results, trace>>
       ELSE IF ~result.success
            THEN /\ all_results' = all_results
                 /\ ret' = << [success |-> FALSE, to |-> to_number,
                               error |-> <<"Failed on segment", seg, Len(chunks)>>,
                               segments_sent |-> seg - 1,
                               total_segments |-> Len(chunks),
                               details |-> all_results] >>
                 /\ pc' = AfterSms
                 /\ trace' = trace
            ELSE /\ all_results' = Append(all_results, result)
                 /\ ret' = <<>>
                 /\ pc' = "seg_loop"
                 /\ trace' = IF seg < Len(chunks)
                             THEN Append(trace, SleepEvent("pacing", InterSegmentDelay))
                             ELSE trace
    /\ UNCHANGED <<news_frame, config, args, bulk_frame, to_number, multi, chunks, seg,
                   single_frame, faults>>

SmsAfterSingle ==
    /\ pc = "single_ret"
    /\ LET result == ret[1] IN
       IF ~multi
       THEN /\ pc' = AfterSms
            /\ UNCHANGED <<ret, all_results, trace>>
       ELSE /\ all_results' = Append(all_results, result)
            /\ IF ~result.success
               THEN /\ ret' = << [success |-> FALSE, to |-> to_number,
                                  error |-> <<"Failed on segment", seg, Len(chunks)>>,
                                  segments_sent |-> seg - 1,
                                  total_segments |-> Len(chunks),
                                  details |-> all_results'] >>
                    /\ pc' = AfterSms
                    /\ trace' = trace
               ELSE /\ ret' = <<>>
                    /\ pc' = "seg_loop"
                    /\ trace' = IF seg < Len(chunks)
                                THEN Append(trace, SleepEvent("pacing", InterSegmentDelay))
                                ELSE trace
    /\ UNCHANGED <<news_frame, config, args, bulk_frame, to_number, multi, chunks, seg,
                   single_frame, faults>>

(* ---------------------------- send_bulk_sms --------------------------- *)
\* lines 279-280: the next recipient is handed to send_sms
BulkNext ==
    /\ pc = "bulk_loop" /\ ri < Len(recipients)
    /\ ri' = ri + 1
    /\ initial_delay' = DefaultInitialDelay
    /\ EnterSendSms(recipients[ri + 1], message)
    /\ UNCHANGED <<news_frame, config, entry, recipients, message, max_retries, arg_max_length,
                   results, attempt, delay, ret, trace, faults>>

\* BulkAfterSms with a failed recipient ending the batch
BulkAfterSms_StopOnFailure ==
    /\ pc = "sms_ret"
    /\ LET result == ret[1]
           report == [results EXCEPT
                        !.successful = IF result.success THEN @ + 1 ELSE @,
                        !.failed = IF result.success THEN @ ELSE @ + 1,
                        !.details = Append(@, result)]
       IN /\ results' = report
          /\ IF result.success
             THEN ret' = <<>> /\ pc' = "bulk_loop"
             ELSE ret' = <<report>> /\ pc' = "done"
    /\ UNCHANGED <<news_frame, config, args, ri, sms_frame, single_frame, trace, faults>>

\* BulkAfterSms with each outcome put in front of the earlier ones
BulkAfterSms_Prepend ==
    /\ pc = "sms_ret"
    /\ LET result == ret[1] IN
       results' = [results EXCEPT
                     !.successful = IF result.success THEN @ + 1 ELSE @,
                     !.failed = IF result.success THEN @ ELSE @ + 1,
                     !.details = <<result>> \o @]
    /\ ret' = <<>>
    /\ pc' = "bulk_loop"
    /\ UNCHANGED <<news_frame, config, args, ri, sms_frame, single_frame, trace, faults>>

\* BulkAfterSms with every outcome counted as a success
BulkAfterSms_CountsAllSuccessful ==
    /\ pc = "sms_ret"
    /\ LET result == ret[1] IN
       results' = [results EXCEPT
                     !.successful = @ + 1,
                     !.details = Append(@, result)]
    /\ ret' = <<>>
    /\ pc' = "bulk_loop"
    /\ UNCHANGED <<news_frame, config, args, ri, sms_frame, single_frame, trace, faults>>

\* BulkAfterSms with the append of line 287 outside the loop: only the
\* outcome of the last recipient reaches the report
BulkAfterSms_AppendOutsideLoop ==
    /\ pc = "sms_ret"
    /\ LET result == ret[1] IN
       results' = [results EXCEPT
                     !.successful = IF result.success THEN @ + 1 ELSE @,
                     !.failed = IF result.success THEN @ ELSE @ + 1,
                     !.details = IF ri = Len(recipients) THEN Append(@, result) ELSE @]
    /\ ret' = <<>>
    /\ pc' = "bulk_loop"
    /\ UNCHANGED <<news_frame, config, args, ri, sms_frame, single_frame, trace, faults>>

\* lines 282-287: send_sms has returned ret[1]
BulkAfterSms ==
    /\ pc = "sms_ret"
    /\ LET result == ret[1] IN
       results' = [results EXCEPT
                     !.successful = IF result.success THEN @ + 1 ELSE @,
                     !.failed = IF result.success THEN @ ELSE @ + 1,
                     !.details = Append(@, result)]
    /\ ret' = <<>>
    /\ pc' = "bulk_loop"
    /\ UNCHANGED <<news_frame, config, args, ri, sms_frame, single_frame, trace, faults>>

\* lines 289-291: the loop over recipients has ended
BulkDone ==
    /\ pc = "bulk_loop" /\ ri = Len(recipients)
    /\ ret' = <<results>>
    /\ pc' = "done"
    /\ UNCHANGED <<news_frame, config, args, bulk_frame, sms_frame, single_frame, trace, faults>>

(* ----------------------------- the caller ----------------------------- *)
\* how many segments send_sms would send
SegmentsOf(msg) ==
    IF Len(msg) > max_length THEN Len(ChunksOf[<<msg, max_length>>]) ELSE 1

\* send_bulk_sms(recips, msg, max_retries=mr), lines 270-277
CallBulk(recips, msg, mr) ==
    /\ pc = "ready"
    /\ SegmentsOf(msg) <= MaxSegments
    /\ entry' = "bulk" /\ recipients' = recips /\ message' = msg /\ max_retries' = mr
    /\ results' = [total |-> Len(recips), successful |-> 0, failed |-> 0,
                   details |-> <<>>]
    /\ ri' = 0
    /\ pc' = "bulk_loop"
    /\ UNCHANGED <<news_frame, config, initial_delay, arg_max_length, sms_frame, single_frame,
                   ret, trace, faults>>

\* CallSms with send_sms moving the service to long mode when it is handed a
\* message that it has to split
CallSms_SwitchesMode(to, msg, mr, idl) ==
    /\ pc = "ready"
    /\ SegmentsOf(msg) <= MaxSegments
    /\ entry' = "sms" /\ message' = msg /\ max_retries' = mr /\ initial_delay' = idl
    /\ EnterSendSms(to, msg)
    /\ dry_run' = dry_run
    /\ IF Len(msg) > max_length
       THEN sms_mode' = "long" /\ max_length' = MaxLengthOf("long")
       ELSE sms_mode' = sms_mode /\ max_length' = max_length
    /\ UNCHANGED <<news_frame, recipients, arg_max_length, bulk_frame, attempt, delay,
                   ret, trace, faults>>

\* send_sms(to, msg, mr, idl)
CallSms(to, msg, mr, idl) ==
    /\ pc = "ready"
    /\ SegmentsOf(msg) <= MaxSegments
    /\ entry' = "sms" /\ message' = msg /\ max_retries' = mr /\ initial_delay' = idl
    /\ EnterSendSms(to, msg)
    /\ UNCHANGED <<news_frame, config, recipients, arg_max_length, bulk_frame, attempt, delay,
                   ret, trace, faults>>

\* _send_single_sms(to, msg, mr, idl)
CallSingle(to, msg, mr, idl) ==
    /\ pc = "ready"
    /\ entry' = "single" /\ max_retries' = mr /\ initial_delay' = idl
    /\ to_number' = to
    /\ body' = msg
    /\ pc' = "single_entry"
    /\ UNCHANGED <<news_frame, config, recipients, message, arg_max_length, bulk_frame, multi,
                   chunks, seg, all_results, attempt, delay, ret, trace, faults>>

\* the caller has taken the returned value; the next call starts afresh
Return ==
    /\ pc = "done"
    /\ pc' = "ready"
    /\ entry' = "none" /\ recipients' = <<>> /\ message' = <<>>
    /\ max_retries' = 0 /\ initial_delay' = 0 /\ arg_max_length' = 0
    /\ results' = NoResults /\ ri' = 0
    /\ to_number' = "" /\ multi' = FALSE /\ chunks' = <<>> /\ seg' = 0
    /\ all_results' = <<>>
    /\ body' = <<>> /\ attempt' = 0 /\ delay' = 0
    /\ ret' = <<>> /\ trace' = <<>> /\ faults' = 0
    /\ UNCHANGED <<news_frame, config>>

Next ==
    \/ \E recips \in RecipientLists, msg \in BulkMessages, mr \in RetryChoices :
          CallBulk(recips, msg, mr)
    \/ \E msg \in Messages, mr \in RetryChoices, idl \in DelayChoices :
          CallSms(Subscriber(1), msg, mr, idl)
    \/ \E mr \in RetryChoices, idl \in DelayChoices :
          CallSingle(Subscriber(1), MsgShort, mr, idl)
    \/ BulkNext
    \/ BulkAfterSms
    \/ BulkDone
    \/ SegNext
    \/ SegAllSent
    \/ SmsAfterSingle
    \/ SingleDryRun
    \/ SingleBegin
    \/ AttemptOk
    \/ \E e \in FaultChoices : AttemptTwilioError(e)
    \/ AttemptException
    \/ RetriesExceeded
    \/ Return

Spec == Init /\ [][Next]_vars

\* the steps the service takes by itself once a method was called
Running ==
    \/ BulkNext
    \/ BulkAfterSms
    \/ BulkDone
    \/ SegNext
    \/ SegAllSent
    \/ SmsAfterSingle
    \/ SingleDryRun
    \/ SingleBegin
    \/ AttemptOk
    \/ \E e \in FaultChoices : AttemptTwilioError(e)
    \/ AttemptException
    \/ RetriesExceeded

\* every call of the transport returns or raises and every sleep ends: a
\* called method goes on as long as it has a step to take
LiveSpec == Spec /\ WF_vars(Running)

(* ------------------ split_long_message called directly ---------------- *)
\* ' '.join(words) (the list is halved so that the evaluation stays shallow)
RECURSIVE JoinSpace(_)
JoinSpace(words) ==
    IF words = <<>> THEN <<>>
    ELSE IF Len(words) = 1 THEN words[1]
    ELSE LET mid == Len(words) \div 2
         IN JoinSpace(SubSeq(words, 1, mid)) \o <<" ">>
              \o JoinSpace(SubSeq(words, mid + 1, Len(words)))

\* the words the messages are made of: the empty word (two spaces in a row,
\* a leading or a trailing space), short words and one ending in a newline
SplitWords == { <<>>, <<"a">>, <<"b", "c">>, <<"d", "e", "f", "g", "h">>, <<"x", "\n">> }

WordLists == UNION { [1..n -> SplitWords] : n \in 0..MaxWords }

\* a word followed by more spaces than any limit
MsgPadded == <<"a">> \o Rep(" ", MaxLimit + 1)

\* the smallest number of parts whose marker needs more than MarkerBudget
ManyParts == 1000

MsgManyParts == Rep("a", ManyParts)

\* as many parts at the limit of segment mode: a one-letter word and a word
\* that fills a part, ManyParts / 2 times over, joined by spaces
WordPair == <<"b", " ">> \o Rep("a", MaxLengthOf("segment") - MarkerBudget) \o <<" ">>

MsgManySegments ==
    [k \in 1..((ManyParts \div 2) * Len(WordPair) - 1) |->
        WordPair[((k - 1) % Len(WordPair)) + 1]]

Limits == 1..MaxLimit

\* the calls split_long_message(message, max_length) that are made
SplitInputs ==
    ({ JoinSpace(ws) : ws \in WordLists } \cup {MsgPadded}) \X Limits
       \cup { <<MsgManyParts, MarkerBudget + 1>> }
       \cup { <<MsgThree, MaxLengthOf("segment")>>,
               <<MsgManySegments, MaxLengthOf("segment")>> }

\* a service in segment mode on which split_long_message(m, L) is called
SplitInit ==
    /\ dry_run = FALSE /\ sms_mode = "segment" /\ max_length = MaxLengthOf("segment")
    /\ \E in \in SplitInputs : message = in[1] /\ arg_max_length = in[2]
    /\ entry = "split" /\ pc = "split_entry"
    /\ recipients = <<>> /\ max_retries = 0 /\ initial_delay = 0
    /\ results = NoResults /\ ri = 0
    /\ to_number = "" /\ multi = FALSE /\ chunks = <<>> /\ seg = 0 /\ all_results = <<>>
    /\ body = <<>> /\ attempt = 0 /\ delay = 0
    /\ ret = <<>> /\ trace = <<>> /\ faults = 0
    /\ NewsIdle

\* lines 304-351 run to the return
SplitReturns ==
    /\ pc = "split_entry"
    /\ ~SplitRaises(message, arg_max_length)
    /\ chunks' = split_long_message(message, arg_max_length)
    /\ ret' = <<chunks'>>
    /\ pc' = "done"
    /\ UNCHANGED <<news_frame, config, args, bulk_frame, to_number, multi, seg, all_results,
                   single_frame, trace, faults>>

\* line 327 raises
SplitRaisesValueError ==
    /\ pc = "split_entry"
    /\ SplitRaises(message, arg_max_length)
    /\ pc' = "raised"
    /\ UNCHANGED <<news_frame, config, args, bulk_frame, sms_frame, single_frame, ret, trace, faults>>

SplitNext == SplitReturns \/ SplitRaisesValueError

SplitSpec == SplitInit /\ [][SplitNext]_vars

(* ------------------- DailyNewsService (send_daily_news.py) ------------ *)
MaxArticles == 6

\* line 112: the categories, in the order fetch_all_news fills the cache
categories == <<"general", "ai", "tech", "local">>

\* lines 149-156: category_labels.get(category, "NEWS")
category_labels(category) ==
    CASE category = "general" -> <<"G", "E", "N", "E", "R", "A", "L", " ", "N", "E", "W", "S">>
      [] category = "ai" -> <<"A", "I", " ", "N", "E", "W", "S">>
      [] category = "tech" -> <<"T", "E", "C", "H", " ", "N", "E", "W", "S">>
      [] category = "local" -> <<"L", "O", "C", "A", "L", " ", "N", "E", "W", "S">>
      [] OTHER -> <<"N", "E", "W", "S">>

NoTitle == <<"N", "o", " ", "t", "i", "t", "l", "e">>

\* line 160: article.get('title', 'No title')[:80]
TitleLimit == 80

TitleOf(article) ==
    LET title == IF "title" \in DOMAIN article THEN article.title ELSE NoTitle
    IN SubSeq(title, 1, Min(TitleLimit, Len(title)))

\* line 159: articles[:5]
FallbackArticles == 5

\* lines 159-161: the numbered title lines of articles[lo..hi]
RECURSIVE TitleLines(_, _, _)
TitleLines(articles, lo, hi) ==
    IF lo > hi THEN <<>>
    ELSE TitleLines(articles, lo, hi - 1)
           \o IntToStr(hi) \o <<".", " ">> \o TitleOf(articles[hi]) \o <<"\n">>

\* lines 147-163
_create_fallback_summary(articles, category) ==
    category_labels(category) \o <<"\n", "\n">>
       \o TitleLines(articles, 1, Min(FallbackArticles, Len(articles)))

\* the article records the fetcher hands over: with a short title, with a
\* title longer than the fallback keeps, and without a title
ArticleShort == [title |-> <<"n", "e", "w", "s">>]

ArticleLong == [title |-> Rep("t", TitleLimit + 1)]

ArticleUntitled == [source |-> "feed"]

ArticleLists ==
    { <<>>, <<ArticleShort>>,
      [i \in 1..MaxArticles |->
          IF i = 1 THEN ArticleLong ELSE IF i = 2 THEN ArticleUntitled ELSE ArticleShort] }

\* what summarize_articles returns when it returns: a text, a text that
\* already carries a briefing header, or the empty text
SummaryPlain == <<"A", "I", ":", " ", "c", "h", "i", "p", "s">>

SummaryHeaded == <<"T", "E", "C", "H", "N", "O", "L", "O", "G", "Y", "\n", "c", "h", "i",
      "p", "s">>

SummaryTexts == { SummaryPlain, SummaryHeaded, <<>> }

\* the subscriber lists load_subscribers returns for run to go on (line 249)
SubscriberLists == { rs \in RecipientLists : rs # <<>> }

\* dict assignment d[k] = v
DictSet(d, k, v) == [x \in DOMAIN d \cup {k} |-> IF x = k THEN v ELSE d[x]]

\* run, lines 245-254: a service made by DailyNewsService(test_mode) has
\* loaded its subscribers and fetched the articles of every category
NewsInit ==
    /\ \E test_mode \in BOOLEAN : dry_run = test_mode
    /\ sms_mode = "segment" /\ max_length = MaxLengthOf("segment")
    /\ \E subs \in SubscriberLists : subscribers = subs
    /\ \E cache \in [1..Len(categories) -> ArticleLists] :
          articles_cache = [c \in { categories[i] : i \in 1..Len(categories) } |->
                              cache[CHOOSE i \in 1..Len(categories) : categories[i] = c]]
    /\ summaries_cache = <<>> /\ ci = 0 /\ summarized = <<>>
    /\ entry = "news" /\ pc = "gen_loop"
    /\ recipients = <<>> /\ message = <<>>
    /\ max_retries = 0 /\ initial_delay = 0 /\ arg_max_length = 0
    /\ results = NoResults /\ ri = 0
    /\ to_number = "" /\ multi = FALSE /\ chunks = <<>> /\ seg = 0 /\ all_results = <<>>
    /\ body = <<>> /\ attempt = 0 /\ delay = 0
    /\ ret = <<>> /\ trace = <<>> /\ faults = 0

\* lines 131-134: the next category has no article and is skipped
GenSkip ==
    /\ pc = "gen_loop" /\ ci < Len(categories)
    /\ articles_cache[categories[ci + 1]] = <<>>
    /\ ci' = ci + 1
    /\ UNCHANGED <<pc, config, args, bulk_frame, sms_frame, single_frame, ret, trace,
                   faults, subscribers, articles_cache, summaries_cache, summarized>>

\* lines 136-139: summarize_articles returns text for the next category
GenSummarized(text) ==
    /\ pc = "gen_loop" /\ ci < Len(categories)
    /\ articles_cache[categories[ci + 1]] # <<>>
    /\ ci' = ci + 1
    /\ summaries_cache' = DictSet(summaries_cache, categories[ci + 1], text)
    /\ summarized' = Append(summarized, [category |-> categories[ci + 1],
                                          raised |-> FALSE, text |-> text])
    /\ UNCHANGED <<pc, config, args, bulk_frame, sms_frame, single_frame, ret, trace,
                   faults, subscribers, articles_cache>>

\* GenFallback without the except clause of line 140: the exception leaves
\* generate_summaries and ends run (lines 278-280)
GenFallback_Propagates ==
    /\ pc = "gen_loop" /\ ci < Len(categories)
    /\ articles_cache[categories[ci + 1]] # <<>>
    /\ summarized' = Append(summarized, [category |-> categories[ci + 1],
                                          raised |-> TRUE, text |-> <<>>])
    /\ pc' = "exited"
    /\ UNCHANGED <<config, args, bulk_frame, sms_frame, single_frame, ret, trace,
                   faults, subscribers, articles_cache, summaries_cache, ci>>

\* lines 136-143: summarize_articles raises for the next category
GenFallback ==
    /\ pc = "gen_loop" /\ ci < Len(categories)
    /\ articles_cache[categories[ci + 1]] # <<>>
    /\ ci' = ci + 1
    /\ summaries_cache' =
          DictSet(summaries_cache, categories[ci + 1],
                  _create_fallback_summary(articles_cache[categories[ci + 1]],
                                           categories[ci + 1]))
    /\ summarized' = Append(summarized, [category |-> categories[ci + 1],
                                          raised |-> TRUE, text |-> <<>>])
    /\ UNCHANGED <<pc, config, args, bulk_frame, sms_frame, single_frame, ret, trace,
                   faults, subscribers, articles_cache>>

\* line 145: the loop has ended, generate_summaries returns the cache
GenReturn ==
    /\ pc = "gen_loop" /\ ci = Len(categories)
    /\ ret' = <<summaries_cache>>
    /\ pc' = "gen_done"
    /\ UNCHANGED <<config, args, bulk_frame, sms_frame, single_frame, trace, faults,
                   news_frame>>

\* lines 177-182: the header of each category in the briefing
BriefingLabel(category) ==
    CASE category = "general" -> <<"W", "O", "R", "L", "D", " ", "N", "E", "W", "S">>
      [] category = "ai" -> <<"A", "I", " ", "&", " ", "M", "A", "C", "H", "I", "N", "E", " ", "L",
      "E", "A", "R", "N", "I", "N", "G">>
      [] category = "tech" -> <<"T", "E", "C", "H", "N", "O", "L", "O", "G", "Y">>
      [] category = "local" -> <<"L", "O", "C", "A", "L", " ", "N", "E", "W", "S">>

\* label in summary: the substring test of line 191
Contains(text, part) ==
    \E i \in 0..(Len(text) - Len(part)) : SubSeq(text, i + 1, i + Len(part)) = part

\* datetime.now().strftime('%B %d, %Y') on the day of the run
Today == <<"N", "o", "v", "e", "m", "b", "e", "r", " ", "0", "3", ",", " ", "2",
      "0", "2", "6">>

RuleWidth == 40

\* lines 184-194: the part of the briefing for categories[lo..hi]
RECURSIVE BriefingParts(_, _, _)
BriefingParts(cache, lo, hi) ==
    IF lo > hi THEN <<>>
    ELSE LET category == categories[hi]
             label == BriefingLabel(category)
         IN BriefingParts(cache, lo, hi - 1) \o
            (IF category \notin DOMAIN cache \/ cache[category] = <<>>
             THEN <<>>
             ELSE (IF Contains(cache[category], label)
                   THEN <<>>
                   ELSE <<"\n">> \o label \o <<"\n">> \o Rep("-", Len(label)) \o <<"\n">>)
                  \o cache[category] \o <<"\n", "\n">>)

\* lines 165-201
create_daily_briefing(cache) ==
    <<"D", "A", "I", "L", "Y", " ", "N", "E", "W", "S", " ", "B", "R", "I",
      "E", "F", "I", "N", "G", "\n">> \o Today \o <<"\n">>
      \o Rep("=", RuleWidth) \o <<"\n", "\n">>
      \o BriefingParts(cache, 1, Len(categories))
      \o Rep("=", RuleWidth) \o <<"\n">>
      \o <<"S", "t", "a", "y", " ", "i", "n", "f", "o", "r", "m", "e", "d", "!",
      " ", "R", "e", "p", "l", "y", " ", "S", "T", "O", "P", " ", "t", "o",
      " ", "u", "n", "s", "u", "b", "s", "c", "r", "i", "b", "e", ".">>

\* line 223: max_retries=5
NewsMaxRetries == 5

\* lines 260-263 and 214-224: run builds the briefing and calls
\* send_bulk_sms(subscribers, briefing, max_retries=5); from there on the
\* steps are those of send_bulk_sms
Handoff ==
    /\ pc = "gen_done"
    /\ entry' = "bulk" /\ recipients' = subscribers
    /\ message' = create_daily_briefing(summaries_cache)
    /\ max_retries' = NewsMaxRetries
    /\ results' = [total |-> Len(subscribers), successful |-> 0, failed |-> 0,
                   details |-> <<>>]
    /\ ri' = 0
    /\ ret' = <<>>
    /\ pc' = "bulk_loop"
    /\ UNCHANGED <<config, initial_delay, arg_max_length, sms_frame, single_frame,
                   trace, faults, news_frame>>

NewsNext ==
    \/ GenSkip
    \/ \E text \in SummaryTexts : GenSummarized(text)
    \/ GenFallback
    \/ GenReturn
    \/ Handoff

NewsSpec == NewsInit /\ [][NewsNext]_vars

(* ----------------------- reading the trace ---------------------------- *)
Events == 1..Len(trace)

IsCall(p) == trace[p].kind = "call"

IsBackoff(p) == trace[p].kind = "sleep" /\ trace[p].why = "backoff"

\* the transport calls made for recipient r of a bulk send
CallsTo(r) == { p \in Events : IsCall(p) /\ trace[p].r = r }

\* the events of one run of _send_single_sms: segment s of recipient r
CallsOf(r, s) == { p \in Events : IsCall(p) /\ trace[p].r = r /\ trace[p].seg = s }

FailedCallsOf(r, s) == { p \in CallsOf(r, s) : trace[p].why # "ok" }

BackoffsOf(r, s) == { p \in Events : IsBackoff(p) /\ trace[p].r = r /\ trace[p].seg = s }

\* the j-th smallest element of a set of positions
Nth(S, j) == CHOOSE p \in S : Cardinality({ q \in S : q <= p }) = j

Last(S) == CHOOSE p \in S : \A q \in S : q <= p

\* the call at p raised a TwilioRestException whose code is a terminal one
TerminalCodeAt(p) ==
    IsCall(p) /\ trace[p].why = "twilio" /\ trace[p].err[1].code \in non_retryable_codes

\* the call at p raised something the executor retries
RetryableAt(p) ==
    /\ IsCall(p)
    /\ \/ trace[p].why = "exception"
       \/ trace[p].why = "twilio" /\ _is_retryable_error(trace[p].err[1])

\* _send_single_sms has just returned ret[1]
SingleReturned == pc = "single_ret" \/ (pc = "done" /\ entry = "single")

\* send_sms has just returned ret[1]
SmsReturned == pc = "sms_ret" \/ (pc = "done" /\ entry = "sms")

\* send_bulk_sms has returned ret[1]
BulkReturned == pc = "done" /\ entry = "bulk"

\* the message has something to send: it is short, or it splits into chunks
HasSegments == ~multi \/ chunks # <<>>

\* the result of the segment send that decided the recipient outcome o
DecidingResult(o) ==
    IF "details" \in DOMAIN o THEN o.details[Len(o.details)] ELSE o

(* ------------------------------ C1 ------------------------------------ *)
\* C1 Bulk independence: send_bulk_sms takes every recipient of the list in
\* turn whatever the outcomes of the recipients before it: when it returns,
\* every recipient has an outcome and (outside dry-run, with max_retries >= 1
\* and a message that has a segment) the transport was called for every
\* recipient.  With 3 recipients of which only the second fails, terminally,
\* the report has successful = 2 and failed = 1.
C1_BulkIndependence ==
    BulkReturned =>
      /\ ri = Len(recipients)
      /\ Len(results.details) = Len(recipients)
      /\ (~dry_run /\ max_retries >= 1 /\ HasSegments) =>
            \A i \in 1..Len(recipients) : CallsTo(i) # {}
      /\ ( /\ Len(recipients) = 3
           /\ CallsTo(2) # {} /\ \A p \in CallsTo(2) : TerminalCodeAt(p)
           /\ CallsTo(1) # {} /\ CallsTo(3) # {}
           /\ \A p \in CallsTo(1) \cup CallsTo(3) : trace[p].why = "ok" )
         => results.successful = 2 /\ results.failed = 1

\* a batch of three whose second recipient failed terminally and whose third
\* recipient was then served
C1_Witness ==
    /\ BulkReturned /\ Len(recipients) = 3
    /\ CallsTo(2) # {} /\ \A p \in CallsTo(2) : TerminalCodeAt(p)
    /\ \A p \in CallsTo(1) \cup CallsTo(3) : trace[p].why = "ok"
    /\ \E p \in CallsTo(3) : p > Last(CallsTo(2))
    /\ results.successful = 2 /\ results.failed = 1

(* ------------------------------ C2 ------------------------------------ *)
\* C2 No failure is raised out of send_bulk_sms: whatever the transport
\* raises on any attempt, control never leaves by an exception, and the
\* returned report holds one outcome, a success or a failure, per recipient.
C2_NothingRaised ==
    /\ pc # "raised"
    /\ BulkReturned =>
         /\ ret = <<results>>
         /\ Len(results.details) = Len(recipients)
         /\ \A i \in 1..Len(recipients) : results.details[i].success \in BOOLEAN

\* a returned report of a batch in which the transport raised both kinds of
\* exception
C2_Witness ==
    /\ BulkReturned /\ Len(recipients) >= 2
    /\ \E p \in Events : IsCall(p) /\ trace[p].why = "exception"
    /\ \E p \in Events : IsCall(p) /\ trace[p].why = "twilio"
    /\ Len(results.details) = Len(recipients)
    /\ results.failed >= 1

(* ------------------------------ C3 ------------------------------------ *)
\* C3 Report ordering: details[i] is the outcome of recipients[i]: it names
\* recipients[i] and it is a success exactly when the last transport call
\* made for recipient i was accepted; at return details has len(recipients)
\* entries.
C3_ReportOrder ==
    entry = "bulk" =>
      /\ Len(results.details) <= Len(recipients)
      /\ \A i \in 1..Len(results.details) :
            /\ results.details[i].to = recipients[i]
            /\ CallsTo(i) # {} =>
                 (results.details[i].success <=> trace[Last(CallsTo(i))].why = "ok")
      /\ BulkReturned => Len(results.details) = Len(recipients)

\* a returned report of three recipients with both outcomes present
C3_Witness ==
    /\ BulkReturned /\ Len(recipients) = 3
    /\ results.details[1].to # results.details[2].to
    /\ results.details[1].success /\ ~results.details[2].success
    /\ CallsTo(3) # {}

(* ------------------------------ C4 ------------------------------------ *)
\* C4 Report counts: throughout a bulk send successful + failed is the
\* number of outcomes in details and successful is the number of successes
\* among them; at return successful + failed = total = len(recipients).
SuccessesIn(details) == Cardinality({ i \in 1..Len(details) : details[i].success })

C4_ReportCounts ==
    entry = "bulk" =>
      /\ results.successful + results.failed = Len(results.details)
      /\ results.successful = SuccessesIn(results.details)
      /\ results.total = Len(recipients)
      /\ BulkReturned => results.successful + results.failed = results.total

\* a bulk send under way with a success and a failure already counted
C4_Witness ==
    /\ entry = "bulk" /\ pc = "retry_loop"
    /\ results.successful >= 1 /\ results.failed >= 1
    /\ Len(results.details) < Len(recipients)

(* ------------------------------ C5 ------------------------------------ *)
SameSend(p, q) == trace[p].r = trace[q].r /\ trace[p].seg = trace[q].seg

\* the event at p belongs to the run of _send_single_sms that is current
OfCurrentSend(p) == trace[p].r = ri /\ trace[p].seg = seg

\* C5 Terminal short-circuit: once the transport has raised a terminal code
\* on attempt n of a segment send, that send makes no further transport call
\* and no backoff wait, and _send_single_sms returns at once a failure with
\* retryable = false and attempts = n; n = 1 when the first call already
\* raised a terminal code.
C5_TerminalShortCircuit ==
    \A p \in Events : TerminalCodeAt(p) =>
      /\ \A q \in (p + 1)..Len(trace) :
            SameSend(p, q) => ~(IsCall(q) \/ IsBackoff(q))
      /\ (p = Len(trace) /\ OfCurrentSend(p)) =>
            /\ pc \in {"single_ret", "sms_ret", "bulk_loop", "done"}
            /\ SingleReturned =>
                 /\ ~ret[1].success
                 /\ ret[1].retryable = FALSE
                 /\ ret[1].attempts = Cardinality(CallsOf(ri, seg))
                 /\ (\A c \in CallsOf(ri, seg) : TerminalCodeAt(c)) => ret[1].attempts = 1

\* _send_single_sms returning after a terminal code on its second attempt
C5_Witness ==
    /\ SingleReturned /\ trace # <<>>
    /\ TerminalCodeAt(Len(trace)) /\ OfCurrentSend(Len(trace))
    /\ Cardinality(CallsOf(ri, seg)) = 2
    /\ Cardinality(BackoffsOf(ri, seg)) = 1
    /\ ret[1].attempts = 2 /\ ret[1].retryable = FALSE

(* ------------------------------ C6 ------------------------------------ *)
RECURSIVE Pow2(_)
Pow2(n) == IF n <= 0 THEN 1 ELSE 2 * Pow2(n - 1)

\* the rank of the backoff wait at q among the waits of its segment send
BackoffRank(q) ==
    Cardinality({ b \in BackoffsOf(trace[q].r, trace[q].seg) : b <= q })

\* C6 Backoff doubling: every backoff wait stands between a failed attempt
\* and the next attempt of the same segment send, the j-th wait of a send
\* lasts initial_delay * 2^(j-1), and a send that succeeds after k failed
\* attempts (k < max_retries) returns success with attempts = k + 1 after
\* exactly k waits.
C6_BackoffDoubling ==
    /\ \A q \in Events : IsBackoff(q) =>
          /\ q > 1 /\ IsCall(q - 1) /\ trace[q - 1].why # "ok" /\ SameSend(q - 1, q)
          /\ q < Len(trace) => (IsCall(q + 1) /\ SameSend(q, q + 1))
          /\ trace[q].secs = initial_delay * Pow2(BackoffRank(q) - 1)
    /\ (SingleReturned /\ ~dry_run /\ ret[1].success) =>
          LET k == Cardinality(FailedCallsOf(ri, seg)) IN
            /\ k < max_retries
            /\ ret[1].attempts = k + 1
            /\ Cardinality(BackoffsOf(ri, seg)) = k

\* a send that succeeded on its fourth attempt after waits of 3, 6 and 12
C6_Witness ==
    /\ SingleReturned /\ ~dry_run /\ ret[1].success
    /\ initial_delay = 3
    /\ Cardinality(FailedCallsOf(ri, seg)) = 3
    /\ ret[1].attempts = 4
    /\ \E a, b, c \in BackoffsOf(ri, seg) :
          a < b /\ b < c /\ trace[a].secs = 3 /\ trace[b].secs = 6 /\ trace[c].secs = 12

(* ------------------------------ C7 ------------------------------------ *)
\* C7 Retry exhaustion (max_retries >= 1): a segment send whose every
\* attempt failed with a retryable error has made exactly max_retries
\* transport calls and max_retries - 1 backoff waits, none after the last
\* failed attempt, and returns the failure "Max retries exceeded" with
\* retryable = true and attempts = max_retries.
C7_RetryExhaustion ==
    ( /\ SingleReturned /\ ~dry_run /\ max_retries >= 1
      /\ \A p \in CallsOf(ri, seg) : RetryableAt(p) )
    => /\ Cardinality(CallsOf(ri, seg)) = max_retries
       /\ Cardinality(BackoffsOf(ri, seg)) = max_retries - 1
       /\ IsCall(Len(trace)) /\ OfCurrentSend(Len(trace))
       /\ ret[1] = [success |-> FALSE, to |-> to_number,
                    error |-> <<"Max retries exceeded">>,
                    attempts |-> max_retries, retryable |-> TRUE]

\* three attempts, all failed for retryable reasons of both kinds
C7_Witness ==
    /\ SingleReturned /\ ~dry_run /\ max_retries = 3
    /\ Cardinality(CallsOf(ri, seg)) = 3
    /\ \A p \in CallsOf(ri, seg) : RetryableAt(p)
    /\ \E p \in CallsOf(ri, seg) : trace[p].why = "exception"
    /\ \E p \in CallsOf(ri, seg) : trace[p].why = "twilio"
    /\ Cardinality(BackoffsOf(ri, seg)) = 2
    /\ ret[1].error = <<"Max retries exceeded">>

(* ------------------------------ C8 ------------------------------------ *)
\* an error whose code is in neither table and whose status is below 500
Unclassified(e) ==
    e.code \notin (non_retryable_codes \cup retryable_codes) /\ e.status < 500

\* C8 Unclassified errors are retried: an error whose code is in neither
\* table and whose status is below 500 is classified retryable, and the
\* segment send it hits does not return a retryable = false failure.
C8_UnclassifiedRetried ==
    \A p \in Events :
      (IsCall(p) /\ trace[p].why = "twilio" /\ Unclassified(trace[p].err[1])) =>
        /\ _is_retryable_error(trace[p].err[1])
        /\ (p = Len(trace) /\ OfCurrentSend(p) /\ SingleReturned) => ret[1].retryable

Transient(e) ==
    \/ e.code \in retryable_codes
    \/ e.status >= 500 /\ e.code \notin (non_retryable_codes \cup retryable_codes)

\* C10 Transient errors are retryable: _is_retryable_error is true for the
\* codes 20429, 20500 and 20503 whatever the status and for a status >= 500
\* with a code of neither table; the segment send such an error hits goes on
\* to a backoff wait, or returns only for want of attempts.
C10_TransientRetryable ==
    /\ \A e \in AllErrors : Transient(e) => _is_retryable_error(e)
    /\ \A p \in Events :
         (IsCall(p) /\ trace[p].why = "twilio" /\ Transient(trace[p].err[1])) =>
           /\ (p < Len(trace) /\ SameSend(p, p + 1)) => IsBackoff(p + 1)
           /\ (p = Len(trace) /\ OfCurrentSend(p) /\ SingleReturned) =>
                 (ret[1].retryable /\ ret[1].attempts = max_retries)

\* an error of neither table with status 500 that was answered by a backoff
\* wait and a further attempt
C10_Witness ==
    \E p \in Events :
      /\ IsCall(p) /\ trace[p].why = "twilio"
      /\ trace[p].err[1].code \in UnlistedCodes /\ trace[p].err[1].status >= 500
      /\ p + 2 <= Len(trace)
      /\ IsBackoff(p + 1) /\ IsCall(p + 2) /\ SameSend(p, p + 2)

(* ------------------------------ C11 ----------------------------------- *)
\* a multi-segment failure as send_sms reports it
IsSegmentFailure(o) == ~o.success /\ "segments_sent" \in DOMAIN o

\* the segment the failure o stopped at
FailingSegment(o) == Len(o.details)

\* what a segment failure o of recipient r must look like, given the calls
\* made for r
SegmentFailureShape(o, r) ==
    LET j == FailingSegment(o) IN
      /\ j >= 1 /\ j <= o.total_segments /\ o.total_segments > 1
      /\ ~o.details[j].success
      /\ \A k \in 1..(j - 1) : o.details[k].success
      /\ o.segments_sent = j - 1
      /\ o.error = <<"Failed on segment", j, o.total_segments>>
      /\ \A s \in (j + 1)..o.total_segments : CallsOf(r, s) = {}
      /\ \A p \in CallsTo(r) : trace[p].seg <= j
      /\ CallsOf(r, j) # {} => trace[Last(CallsOf(r, j))].why # "ok"

\* C11 Partial-segment failure: when segment j of a message of n > 1
\* segments fails (terminal error or retries used up), send_sms returns a
\* failure with segments_sent = j - 1 that names segment j of n, and no
\* transport call is made, then or later, for the segments j+1..n of that
\* recipient; with n = 3 and j = 2, segments_sent = 1 and segment 3 is never
\* attempted.
C11_PartialSegmentFailure ==
    /\ (SmsReturned /\ multi /\ ~ret[1].success) =>
          /\ IsSegmentFailure(ret[1])
          /\ FailingSegment(ret[1]) = seg
          /\ ret[1].total_segments = Len(chunks)
          /\ SegmentFailureShape(ret[1], ri)
          /\ (Len(chunks) = 3 /\ seg = 2) =>
                (ret[1].segments_sent = 1 /\ CallsOf(ri, 3) = {})
    /\ entry = "bulk" =>
          \A i \in 1..Len(results.details) :
            IsSegmentFailure(results.details[i]) =>
               SegmentFailureShape(results.details[i], i)

\* three segments, the first accepted, the second refused with a terminal
\* code, the third not attempted
C11_Witness ==
    /\ SmsReturned /\ multi /\ Len(chunks) = 3 /\ seg = 2
    /\ \E p \in CallsOf(ri, 1) : trace[p].why = "ok"
    /\ CallsOf(ri, 2) # {} /\ TerminalCodeAt(Last(CallsOf(ri, 2)))
    /\ CallsOf(ri, 3) = {}
    /\ ~ret[1].success /\ ret[1].segments_sent = 1
    /\ ret[1].error = <<"Failed on segment", 2, 3>>

(* ------------------------------ C12 ----------------------------------- *)
IsPacing(p) == trace[p].kind = "sleep" /\ trace[p].why = "pacing"

PacingsOf(r, s) == { p \in Events : IsPacing(p) /\ trace[p].r = r /\ trace[p].seg = s }

\* C12 Segment ordering: the transport calls of a recipient come in
\* ascending segment index, a call for segment j carries the j-th chunk, and
\* a call for segment j+1 is made only after a call for segment j was
\* accepted.
C12_SegmentOrder ==
    /\ \A p \in Events : IsCall(p) =>
          \A q \in (p + 1)..Len(trace) :
             (IsCall(q) /\ trace[p].r = trace[q].r) => trace[p].seg <= trace[q].seg
    /\ \A p \in Events : (IsCall(p) /\ trace[p].seg > 1) =>
          \E q \in CallsOf(trace[p].r, trace[p].seg - 1) :
             q < p /\ trace[q].why = "ok"
    /\ multi => \A p \in Events :
          (IsCall(p) /\ trace[p].r = ri) =>
             /\ trace[p].seg \in 1..Len(chunks)
             /\ trace[p].body = chunks[trace[p].seg]

\* three segments sent in order, the second one at its second attempt
C12_Witness ==
    /\ multi /\ Len(chunks) = 3
    /\ \E p \in CallsOf(ri, 1), q \in CallsOf(ri, 2), u \in CallsOf(ri, 3) :
          /\ p < q /\ q < u
          /\ trace[p].why = "ok" /\ trace[q].why # "ok" /\ trace[u].why = "ok"
    /\ chunks[1] # chunks[3]

(* ------------------------------ C13 ----------------------------------- *)
\* C13 Inter-segment pacing: a wait of 5 seconds follows the successful
\* send of every segment j < n of a message of n > 1 segments, once, before
\* anything is done for segment j+1; there is none after the last segment,
\* after a failed segment or for a message sent as a single SMS.
C13_InterSegmentPacing ==
    /\ \A q \in Events : IsPacing(q) =>
          /\ trace[q].secs = InterSegmentDelay
          /\ trace[q].seg >= 1 /\ trace[q].seg < Len(chunks)
          /\ Cardinality(PacingsOf(trace[q].r, trace[q].seg)) = 1
          /\ ~dry_run => /\ q > 1 /\ IsCall(q - 1) /\ trace[q - 1].why = "ok"
                         /\ SameSend(q - 1, q)
          /\ (q < Len(trace) /\ ~dry_run) =>
                /\ IsCall(q + 1)
                /\ trace[q + 1].r = trace[q].r /\ trace[q + 1].seg = trace[q].seg + 1
    /\ \A p \in Events :
          (IsCall(p) /\ trace[p].why = "ok" /\ trace[p].seg >= 1
             /\ trace[p].seg < Len(chunks)) =>
             IF p < Len(trace)
             THEN IsPacing(p + 1) /\ SameSend(p, p + 1)
             ELSE pc = "single_ret" /\ OfCurrentSend(p)
    /\ (SmsReturned /\ multi /\ dry_run) =>
          \A s \in 1..(Len(chunks) - 1) : Cardinality(PacingsOf(ri, s)) = 1
    /\ (SmsReturned /\ ~multi) => \A p \in Events : trace[p].r = ri => ~IsPacing(p)

\* three segments delivered: two waits, none after the third segment
C13_Witness ==
    /\ SmsReturned /\ multi /\ ~dry_run /\ Len(chunks) = 3 /\ ret[1].success
    /\ Cardinality(PacingsOf(ri, 1)) = 1 /\ Cardinality(PacingsOf(ri, 2)) = 1
    /\ PacingsOf(ri, 3) = {}
    /\ IsCall(Len(trace)) /\ trace[Len(trace)].seg = 3

(* ------------------------------ C14 ----------------------------------- *)
RECURSIVE MaxAttempts(_)
MaxAttempts(details) ==
    IF details = <<>> THEN 0
    ELSE LET rest == MaxAttempts(Tail(details))
         IN IF Head(details).attempts > rest THEN Head(details).attempts ELSE rest

\* the attempts an outcome records: its own count, or that of its
\* most-retried segment
AttemptsUsed(o) ==
    IF "attempts" \in DOMAIN o THEN o.attempts ELSE MaxAttempts(o.details)

\* C14 Dry-run invariant: with dry_run = true no transport call is ever made
\* and every recipient outcome of the bulk report is a success that records
\* 1 attempt.
C14_DryRun ==
    dry_run =>
      /\ \A p \in Events : ~IsCall(p)
      /\ entry = "bulk" =>
            \A i \in 1..Len(results.details) :
               /\ results.details[i].success
               /\ AttemptsUsed(results.details[i]) = 1

(* ------------------------------ C15 ----------------------------------- *)
\* C15 Fully sequential delivery: in a bulk send the transport calls and the
\* waits are grouped by recipient in list order, and nothing is done for
\* recipient i+1 before the outcome of recipient i is in the report.
C15_Sequential ==
    entry = "bulk" =>
      /\ \A p \in Events : \A q \in (p + 1)..Len(trace) : trace[p].r <= trace[q].r
      /\ \A p \in Events :
            /\ trace[p].r \in 1..ri
            /\ Len(results.details) >= trace[p].r - 1
      /\ Len(results.details) \in {ri - 1, ri}
      /\ pc \in {"single_entry", "retry_loop", "single_ret", "seg_loop", "sms_ret"} =>
            Len(results.details) = ri - 1

\* the second recipient being served, with a backoff wait and a pacing wait
\* of its own, after the first recipient's outcome was appended
C15_Witness ==
    /\ entry = "bulk" /\ ri = 2 /\ pc = "retry_loop"
    /\ Len(results.details) = 1
    /\ CallsTo(1) # {}
    /\ \E p \in Events : IsBackoff(p) /\ trace[p].r = 2
    /\ \E p \in Events : IsPacing(p) /\ trace[p].r = 2

(* ------------------------------ C16 ----------------------------------- *)
\* split_long_message(message, arg_max_length) has returned ret[1]
SplitReturned == entry = "split" /\ pc = "done"

\* C16 Segment length bound: every segment split_long_message returns, its
\* marker included, is at most max_length long, for every message and every
\* max_length >= 1.
C16_SegmentLengthBound ==
    SplitReturned => \A i \in 1..Len(ret[1]) : Len(ret[1][i]) <= arg_max_length

(* ------------------------------ C17 ----------------------------------- *)
\* the segments without their markers
Bodies(segments) ==
    IF Len(segments) > 1
    THEN [i \in 1..Len(segments) |->
            SubSeq(segments[i], Len(Marker(i, Len(segments))) + 1, Len(segments[i]))]
    ELSE segments

\* C17 Segmentation round-trip: the bodies of the segments, joined in order
\* with single spaces, are the space-delimited words of the message joined
\* with single spaces, for every message and every max_length >= 1.
C17_RoundTrip ==
    SplitReturned => JoinSpace(Bodies(ret[1])) = JoinSpace(SplitSpace(message))

(* ------------------------------ C18 ----------------------------------- *)
\* C18 Segmentation is total: split_long_message returns a list and never
\* raises, for every message and every max_length >= 1.
C18_SplitTotal ==
    entry = "split" =>
      /\ pc \in {"split_entry", "done"}
      /\ pc = "done" => ret = <<chunks>>

(* ------------------------------ C19 ----------------------------------- *)
\* C19 No empty segment: split_long_message never returns an empty list,
\* returns one empty segment for the empty message, and for any other
\* message no segment with an empty body.
C19_NoEmptySegment ==
    SplitReturned =>
      /\ ret[1] # <<>>
      /\ message = <<>> => ret[1] = << <<>> >>
      /\ message # <<>> => \A i \in 1..Len(ret[1]) : Bodies(ret[1])[i] # <<>>

(* ------------------------------ C20 ----------------------------------- *)
\* s[i..j] for some i, j
IsPieceOf(piece, s) ==
    \E i \in 1..(Len(s) + 1) : \E j \in (i - 1)..Len(s) : SubSeq(s, i, j) = piece

\* C20 Single-segment no-marker: a message no longer than max_length comes
\* back as the one segment it is, and a longer message that packs into one
\* chunk comes back as that chunk without an [i/n] marker: a piece of the
\* message, with no bracket in it.
C20_SingleNoMarker ==
    SplitReturned =>
      /\ Len(message) <= arg_max_length => ret[1] = <<message>>
      /\ Len(ret[1]) = 1 =>
            /\ IsPieceOf(ret[1][1], message)
            /\ \A k \in 1..Len(ret[1][1]) : ret[1][1][k] # "["

\* a message longer than max_length that packed into one chunk
C20_Witness ==
    /\ SplitReturned
    /\ Len(message) > arg_max_length
    /\ Len(ret[1]) = 1 /\ ret[1][1] = <<"a">>

(* ------------------------------ C21 ----------------------------------- *)
\* s begins with the text t
BeginsWith(s, t) == Len(s) >= Len(t) /\ SubSeq(s, 1, Len(t)) = t

\* C21 Marker correctness: when split_long_message returns n > 1 segments,
\* segment i begins with "[i/n] ", i counted from 1 and n the number of
\* segments returned.
C21_MarkerCorrect ==
    (SplitReturned /\ Len(ret[1]) > 1) =>
      LET n == Len(ret[1]) IN
        \A i \in 1..n :
          BeginsWith(ret[1][i],
                     <<"[">> \o IntToStr(i) \o <<"/">> \o IntToStr(n) \o <<"]", " ">>)

\* twelve parts: the first begins "[1/12] " and the last "[12/12] "
C21_Witness ==
    /\ SplitReturned /\ Len(ret[1]) = 12
    /\ BeginsWith(ret[1][1], <<"[", "1", "/", "1", "2", "]", " ">>)
    /\ BeginsWith(ret[1][12], <<"[", "1", "2", "/", "1", "2", "]", " ">>)

(* ------------------------------ C22 ----------------------------------- *)
\* the effective length of the call
EffectiveMax == arg_max_length - MarkerBudget

\* ceil(a / b) for b >= 1
CeilDiv(a, b) == (a + b - 1) \div b

\* bodies[p .. p + ceil(len(word)/eff) - 1] are the consecutive pieces of
\* word: all of length eff but the last, which holds the rest
PiecesAt(bodies, p, word, eff) ==
    LET c == CeilDiv(Len(word), eff) IN
      /\ p + c - 1 <= Len(bodies)
      /\ \A j \in 1..c :
            /\ Len(bodies[p + j - 1]) <= eff
            /\ bodies[p + j - 1] = SubSeq(word, (j - 1) * eff + 1, Min(j * eff, Len(word)))
      /\ (c - 1) * eff < Len(word) /\ Len(word) <= c * eff

\* C22 Hard word split (effective_max >= 1): every word of the message that
\* is longer than effective_max appears in the output as
\* ceil(len(word)/effective_max) consecutive pieces of at most effective_max
\* characters that put together are the word; a message that is one such
\* word comes back as exactly these pieces.
C22_HardWordSplit ==
    (SplitReturned /\ Len(message) > arg_max_length /\ EffectiveMax >= 1) =>
      LET words == SplitSpace(message)
          bodies == Bodies(ret[1])
      IN /\ \A k \in 1..Len(words) : Len(words[k]) > EffectiveMax =>
               \E p \in 1..Len(bodies) : PiecesAt(bodies, p, words[k], EffectiveMax)
         /\ (Len(words) = 1) =>
               /\ Len(bodies) = CeilDiv(Len(message), EffectiveMax)
               /\ PiecesAt(bodies, 1, message, EffectiveMax)

\* a word of five characters cut into pieces of two, two and one
C22_Witness ==
    /\ SplitReturned /\ EffectiveMax = 2
    /\ \E p \in 1..(Len(ret[1]) - 2) :
          /\ Bodies(ret[1])[p] = <<"d", "e">>
          /\ Bodies(ret[1])[p + 1] = <<"f", "g">>
          /\ Bodies(ret[1])[p + 2] = <<"h">>

(* ------------------------------ C23 ----------------------------------- *)
\* the segments sent for an outcome: 0 stands for a message sent as one SMS
SegmentsSent(o) ==
    IF "total_segments" \in DOMAIN o THEN 1..o.total_segments ELSE {0}

\* the attempts the most-retried segment of recipient r needed
MostAttempts(o, r) ==
    LET counts == { Cardinality(CallsOf(r, s)) : s \in SegmentsSent(o) }
    IN CHOOSE m \in counts : \A c \in counts : c <= m

\* C23 attempts_used of a delivered recipient: outside dry-run, the outcome
\* of a recipient whose message had segments, all of them accepted, carries
\* an attempts count equal to the attempts of its most-retried segment.
C23_AttemptsUsed ==
    (entry = "bulk" /\ ~dry_run) =>
      \A i \in 1..Len(results.details) :
        LET o == results.details[i] IN
          (o.success /\ SegmentsSent(o) # {}) =>
            /\ "attempts" \in DOMAIN o
            /\ o.attempts = MostAttempts(o, i)

(* ------------------------------ C24 ----------------------------------- *)
\* the transport call that ended the delivery to recipient r was refused
\* with a terminal code
EndedOnTerminal(r) == CallsTo(r) # {} /\ TerminalCodeAt(Last(CallsTo(r)))

\* C24 Retryable flag of a failed recipient (max_retries >= 1): every failed
\* outcome of the bulk report, whether the message went as one SMS or in
\* segments, records a retryable flag: false when the failing segment ended
\* on a terminal error, true when it used up max_retries.
C24_RetryableFlag ==
    (entry = "bulk" /\ max_retries >= 1) =>
      \A i \in 1..Len(results.details) :
        LET o == results.details[i] IN
          ~o.success =>
            /\ "retryable" \in DOMAIN o
            /\ o.retryable = ~EndedOnTerminal(i)

(* ------------------------------ C25 ----------------------------------- *)
\* the sid the transport returned for the accepted call at p
SidOf(p) == <<"SM", Cardinality({ q \in OkCalls(trace) : q <= p })>>

\* the sids of the delivered multi-segment outcome o of recipient r: one per
\* segment, the j-th being the one returned for segment j
SidsInSegmentOrder(o, r) ==
    /\ Len(o.sids) = o.total_segments
    /\ \A j \in 1..o.total_segments :
          IF dry_run THEN o.sids[j] = <<"DRY_RUN_SID">>
          ELSE \E p \in CallsOf(r, j) : trace[p].why = "ok" /\ o.sids[j] = SidOf(p)

\* C25 Confirmation tokens of a delivered multi-segment recipient: the sids
\* of the outcome are one per segment, and the j-th is the sid the transport
\* returned for the accepted call of segment j.
C25_SidsPerSegment ==
    /\ (SmsReturned /\ multi /\ ret[1].success) =>
          /\ ret[1].total_segments = Len(chunks)
          /\ SidsInSegmentOrder(ret[1], ri)
    /\ entry = "bulk" =>
          \A i \in 1..Len(results.details) :
            "sids" \in DOMAIN results.details[i] =>
               SidsInSegmentOrder(results.details[i], i)

\* the second recipient of a batch, delivered in two segments after a failed
\* attempt: its sids are the third and the fourth the transport gave out
C25_Witness ==
    /\ SmsReturned /\ entry = "bulk" /\ ri = 2 /\ multi /\ ~dry_run
    /\ ret[1].success
    /\ FailedCallsOf(2, 1) # {}
    /\ ret[1].sids = << <<"SM", 3>>, <<"SM", 4>> >>

(* ------------------------------ C26 ----------------------------------- *)
\* C26 Configuration is read-only after construction: no step of send_sms,
\* send_bulk_sms or _send_single_sms (the calls of split_long_message they
\* make included) changes dry_run, sms_mode or max_length, and when a call
\* has returned to the caller nothing but this configuration is left of it,
\* so that the next call starts from the state the first one started from.
C26_ConfigReadOnly ==
    [][ /\ config' = config
        /\ pc' = "ready" => Idle' ]_vars

\* a bulk send in two segments per recipient has returned on a service built
\* in segment mode
C26_Witness ==
    /\ BulkReturned /\ Len(recipients) >= 2 /\ multi /\ ~dry_run
    /\ Len(results.details) = Len(recipients)
    /\ sms_mode = "segment" /\ max_length = 120

(* ------------------------------ C27 ----------------------------------- *)
\* C27 Mode selects the segment limit: a service that was constructed has
\* mode "segment" with max_length 120 or mode "long" with max_length 1600;
\* with any other mode construction is refused.
C27_ModeSelectsLimit ==
    /\ pc # "rejected" =>
          \/ sms_mode = "segment" /\ max_length = 120
          \/ sms_mode = "long" /\ max_length = 1600
    /\ sms_mode \notin {"segment", "long"} => pc = "rejected"

\* a service in long mode that split a message of 1601 characters at 1600
C27_Witness ==
    /\ sms_mode = "long" /\ max_length = 1600
    /\ SmsReturned /\ multi /\ Len(message) = 1601 /\ Len(chunks) = 2

(* ------------------------------ C28 ----------------------------------- *)
\* C28 No resend of completed segments: once a transport call for segment j
\* of a recipient-list entry has been accepted, no further transport call is
\* made for segment j of that entry.
C28_NoResend ==
    \A p \in Events : (IsCall(p) /\ trace[p].why = "ok") =>
       \A q \in (p + 1)..Len(trace) : ~(IsCall(q) /\ SameSend(p, q))

\* the first segment was accepted, the second failed at every attempt, and
\* the first was not sent again
C28_Witness ==
    /\ SmsReturned /\ multi /\ ~ret[1].success /\ seg = 2
    /\ Cardinality(CallsOf(ri, 1)) = 1
    /\ Cardinality(FailedCallsOf(ri, 2)) >= 2
    /\ trace[Last(CallsOf(ri, 1))].why = "ok"

(* ------------------------------ C29 ----------------------------------- *)
\* all transport calls of the bulk send so far
AllCalls == { p \in Events : IsCall(p) }

\* C29 Termination and attempt bound: send_bulk_sms, once called, returns;
\* while a segment send runs its attempt counter is the number of transport
\* calls it has made and is at most max_retries, and (max_retries >= 0) the
\* transport calls of a bulk send number at most
\* len(recipients) * number of segments * max_retries.
C29_Termination ==
    /\ [] ( (pc = "retry_loop" /\ max_retries >= 0) =>
              /\ attempt = Cardinality(CallsOf(ri, seg))
              /\ attempt <= max_retries )
    /\ [] ( (entry = "bulk" /\ max_retries >= 0) =>
              Cardinality(AllCalls) <= Len(recipients) * SegmentsOf(message) * max_retries )
    /\ (entry = "bulk") ~> BulkReturned

\* a bulk send that made every call the bound allows: two recipients, one
\* segment, every attempt refused
C29_Witness ==
    /\ BulkReturned /\ Len(recipients) = 2 /\ max_retries >= 1
    /\ Cardinality(AllCalls) = Len(recipients) * SegmentsOf(message) * max_retries

\* C30 Marker budget at the configured limits: with max_length 120 or 1600
\* every segment split_long_message returns, marker included, is at most
\* max_length characters long, whatever the number of segments.
C30_MarkerBudget ==
    (pc = "done" /\ entry = "split"
       /\ arg_max_length \in {MaxLengthOf("segment"), MaxLengthOf("long")}) =>
        \A i \in 1..Len(chunks) : Len(chunks[i]) <= arg_max_length

(* ------------------------------ C31 ----------------------------------- *)
\* the states (chunks, current_chunk) of the loop of lines 318-340 after each
\* of words[lo..hi], started in st
RECURSIVE PackStates(_, _, _, _, _)
PackStates(st, words, lo, hi, eff) ==
    IF lo > hi THEN <<>>
    ELSE IF lo = hi THEN <<PackWord(st, words[lo], eff)>>
    ELSE LET mid == (lo + hi) \div 2
             left == PackStates(st, words, lo, mid, eff)
         IN IF Len(left) > 0
            THEN left \o PackStates(left[Len(left)], words, mid + 1, hi, eff)
            ELSE left

EmptyPack == [chunks |-> <<>>, current_chunk |-> <<>>]

\* the loop states of the call at hand, the state before the first word first
LoopStates ==
    <<EmptyPack>> \o PackStates(EmptyPack, SplitSpace(message), 1,
                                 Len(SplitSpace(message)), arg_max_length - MarkerBudget)

\* C31 Greedy packing: of a message that is split, every chunk body is at
\* most effective_max long; the loop closes a chunk only at a word that is
\* longer than effective_max or that, with one separating space, would take
\* the current chunk over effective_max; a word that fits is appended to the
\* current chunk; and the bodies returned are the chunks of the loop.
C31_GreedyPacking ==
    (SplitReturned /\ Len(message) > arg_max_length) =>
        LET eff == arg_max_length - MarkerBudget
            words == SplitSpace(message)
            sts == LoopStates
        IN /\ Bodies(ret[1]) = Flush(sts[Len(sts)])
           /\ \A i \in 1..Len(ret[1]) : Len(Bodies(ret[1])[i]) <= eff
           /\ \A k \in 1..Len(words) :
                LET before == sts[k]
                    after == sts[k + 1]
                    fits == Len(words[k]) <= eff
                    joined == IF before.current_chunk # <<>>
                              THEN before.current_chunk \o <<" ">> \o words[k]
                              ELSE words[k]
                IN /\ fits => Len(after.current_chunk) <= eff
                   /\ Len(after.chunks) # Len(before.chunks) =>
                        ~fits \/ Len(joined) > eff
                   /\ (fits /\ Len(joined) <= eff) =>
                        /\ after.current_chunk = joined
                        /\ Len(after.chunks) = Len(before.chunks)

\* a split where a word joined the current chunk and a later word, too long
\* to be kept whole, closed that chunk
C31_Witness ==
    /\ SplitReturned /\ Len(message) > arg_max_length
    /\ Len(message) <= 2 * MaxLimit
    /\ LET eff == arg_max_length - MarkerBudget
           words == SplitSpace(message)
           sts == LoopStates
       IN \E j, k \in 1..Len(words) :
             /\ j < k
             /\ words[j] # <<>> /\ sts[j].current_chunk # <<>>
             /\ sts[j + 1].current_chunk = sts[j].current_chunk \o <<" ">> \o words[j]
             /\ Len(words[k]) > eff
             /\ Len(sts[k + 1].chunks) > Len(sts[k].chunks) + 1

(* ------------------------------ C32 ----------------------------------- *)
\* the transport calls for recipient r that were accepted
AcceptedCallsTo(r) == { p \in CallsTo(r) : trace[p].why = "ok" }

\* the texts the transport accepted for recipient r, in the order of the calls
TextsTo(r) ==
    LET Accepted(e) == e.kind = "call" /\ e.r = r /\ e.why = "ok"
        accepted == SelectSeq(trace, Accepted)
    IN [j \in 1..Len(accepted) |-> accepted[j].body]

\* the recipients of the bulk send whose outcome is recorded as a success
Completed == { r \in 1..Len(results.details) : results.details[r].success }

\* what the message and max_length alone make of the message:
\* split_long_message(message, max_length), read from the table ChunksOf
SegmentTexts ==
    IF Len(message) > max_length
    THEN ChunksOf[<<message, max_length>>] ELSE <<message>>

\* C32 Segmentation is independent of the recipient: in a bulk send, the
\* texts handed to the transport for a recipient whose delivery completed
\* are those the message and max_length determine, every call for the
\* recipient carries the text of its segment, and so any two such
\* recipients were sent the same texts in the same order.
C32_SameSegments ==
    (entry = "bulk" /\ ~dry_run) =>
        LET texts == [r \in Completed |-> TextsTo(r)]
            segments == SegmentTexts
        IN /\ \A r \in Completed :
                 /\ texts[r] = segments
                 /\ \A p \in CallsTo(r) :
                       trace[p].body = segments[IF multi THEN trace[p].seg ELSE 1]
           /\ \A r1, r2 \in Completed : texts[r1] = texts[r2]

\* two recipients were delivered a message of several segments, the second
\* after the first had needed a retry
C32_Witness ==
    /\ BulkReturned /\ ~dry_run
    /\ Len(SegmentTexts) >= 2
    /\ {1, 2} \subseteq Completed
    /\ FailedCallsOf(1, 1) # {}
    /\ TextsTo(1) = TextsTo(2)

(* ------------------------------ C33 ----------------------------------- *)
IsSleepEvent(e) == e.kind = "sleep"

IsCallEvent(e) == e.kind = "call"

\* the waits of the run, and its transport calls, each in the order made
Waits == SelectSeq(trace, IsSleepEvent)

Calls == SelectSeq(trace, IsCallEvent)

\* what a bulk send of this message to these recipients goes through when
\* nothing fails: every recipient in turn, for each the segments in turn,
\* and a wait after every segment but the last
SegmentVisits ==
    LET n == Len(SegmentTexts)
    IN [i \in 1..(Len(recipients) * n) |->
          [r |-> ((i - 1) \div n) + 1, seg |-> ((i - 1) % n) + 1]]

WaitVisits ==
    LET n == IF Len(SegmentTexts) >= 1 THEN Len(SegmentTexts) - 1 ELSE 0
    IN [i \in 1..(Len(recipients) * n) |->
          [r |-> ((i - 1) \div n) + 1, seg |-> ((i - 1) % n) + 1]]

\* an outcome without what tells a simulated send from a real one: the
\* sid, the status and the dry_run flag
Stripped(o) == [success |-> o.success, to |-> o.to, attempts |-> o.attempts]

Comparable(o) ==
    IF "details" \in DOMAIN o
    THEN [success |-> o.success, to |-> o.to, segments_sent |-> o.segments_sent,
          total_segments |-> o.total_segments, sids |-> Len(o.sids),
          details |-> [k \in 1..Len(o.details) |-> Stripped(o.details[k])]]
    ELSE Stripped(o)

\* the outcome of a recipient whose every segment went through at once
CleanOutcome(r) ==
    LET n == Len(SegmentTexts)
        part == [success |-> TRUE, to |-> recipients[r], attempts |-> 1]
    IN IF Len(message) > max_length
       THEN [success |-> TRUE, to |-> recipients[r], segments_sent |-> n,
             total_segments |-> n, sids |-> n, details |-> [k \in 1..n |-> part]]
       ELSE part

\* C33 Dry run exercises the same delivery sequence: a bulk send (called
\* with max_retries >= 1) that is a dry run, and one whose every transport
\* call is accepted, both go through the recipients in order, for each
\* through the segments in order, make the same waits between segments and
\* report the same outcomes but for the sid, the status and the dry_run
\* flag; the dry run makes no transport call, the real send one call per
\* segment carrying its text.
C33_DryRunSameSequence ==
    (BulkReturned /\ max_retries >= 1 /\ (dry_run \/ faults = 0)) =>
        /\ Len(Waits) = Len(WaitVisits)
        /\ \A i \in 1..Len(Waits) :
              /\ Waits[i].why = "pacing" /\ Waits[i].secs = InterSegmentDelay
              /\ Waits[i].r = WaitVisits[i].r /\ Waits[i].seg = WaitVisits[i].seg
              /\ Waits[i].to = recipients[WaitVisits[i].r]
        /\ Len(results.details) = Len(recipients)
        /\ \A r \in 1..Len(recipients) :
              Comparable(results.details[r]) = CleanOutcome(r)
        /\ results.successful = Len(recipients) /\ results.failed = 0
        /\ IF dry_run
           THEN /\ Calls = <<>>
                /\ \A r \in 1..Len(recipients) :
                      LET o == results.details[r]
                      IN IF "details" \in DOMAIN o
                         THEN \A k \in 1..Len(o.details) :
                                 o.details[k].sid = <<"DRY_RUN_SID">>
                         ELSE o.sid = <<"DRY_RUN_SID">>
           ELSE /\ Len(Calls) = Len(SegmentVisits)
                /\ \A i \in 1..Len(Calls) :
                      /\ Calls[i].r = SegmentVisits[i].r
                      /\ Calls[i].to = recipients[SegmentVisits[i].r]
                      /\ Calls[i].body = SegmentTexts[SegmentVisits[i].seg]

\* a dry run of a message of several segments to two recipients has returned
C33_Witness ==
    /\ BulkReturned /\ dry_run /\ max_retries >= 1
    /\ Len(recipients) = 2 /\ Len(SegmentTexts) >= 2
    /\ Len(Waits) = 2 * (Len(SegmentTexts) - 1)
    /\ Calls = <<>>

(* ------------------------------ C34 ----------------------------------- *)
\* what the summarizer did for category c: the entries of the log about it
SummarizedAs(c) == { k \in 1..Len(summarized) : summarized[k].category = c }

GenerateReturned == pc \in {"gen_done", "bulk_loop"}

\* C34 Summarizer fallback: generate_summaries always comes to its return
\* and run to the call of send_bulk_sms; once generate_summaries has
\* returned, every category with at least one fetched article was handed to
\* the summarizer once and has an entry in summaries_cache, the
\* summarizer's text if it returned and the fallback briefing made of the
\* category's articles if it raised, whatever happened for the categories
\* before it; the message handed to send_bulk_sms is the briefing made of
\* these entries, for the loaded subscribers.
C34_SummarizerFallback ==
    /\ pc \in {"gen_loop", "gen_done", "bulk_loop"}
    /\ GenerateReturned =>
          \A i \in 1..Len(categories) :
             LET c == categories[i]
             IN articles_cache[c] # <<>> =>
                  /\ Cardinality(SummarizedAs(c)) = 1
                  /\ c \in DOMAIN summaries_cache
                  /\ \A k \in SummarizedAs(c) :
                        summaries_cache[c] =
                           IF summarized[k].raised
                           THEN _create_fallback_summary(articles_cache[c], c)
                           ELSE summarized[k].text
    /\ pc = "bulk_loop" =>
          /\ entry = "bulk" /\ recipients = subscribers
          /\ message = create_daily_briefing(summaries_cache)

\* the summarizer raised for the first category and returned for a later
\* one, and the briefing with both was handed to send_bulk_sms
C34_Witness ==
    /\ pc = "bulk_loop" /\ entry = "bulk" /\ subscribers # <<>>
    /\ Len(summarized) >= 2
    /\ summarized[1].raised /\ summarized[1].category = "general"
    /\ ~summarized[2].raised /\ summarized[2].text # <<>>
    /\ Contains(message, _create_fallback_summary(articles_cache["general"], "general"))
    /\ Contains(message, summarized[2].text)

(* ------------------------------ C35 ----------------------------------- *)
\* the segments send_sms has to send: the chunks, or the message as it is
SegmentsToSend == IF multi THEN 1..Len(chunks) ELSE {0}

AcceptedCallsOf(r, s) == { p \in CallsOf(r, s) : trace[p].why = "ok" }

\* C35 A reported success means something was sent: outside dry-run, when
\* send_sms returns success = true, the transport accepted at least one call
\* for the recipient and accepted every segment of the message exactly
\* once, for every message, those made only of spaces included.
C35_SuccessMeansSent ==
    (SmsReturned /\ ~dry_run /\ ret[1].success) =>
        /\ AcceptedCallsTo(ri) # {}
        /\ \A s \in SegmentsToSend : Cardinality(AcceptedCallsOf(ri, s)) = 1

(* ------------------------------ C36 ----------------------------------- *)
\* C36 Reported attempts equal real attempts: outside dry-run, for every
\* integer max_retries, 0 and negative values included, the attempts value
\* in the result of _send_single_sms is the number of transport calls made
\* for that segment, and a result is returned only after at least one call.
C36_AttemptsAreCalls ==
    (SingleReturned /\ ~dry_run) =>
        /\ ret[1].attempts = Cardinality(CallsOf(ri, seg))
        /\ Cardinality(CallsOf(ri, seg)) >= 1

(* ------------------------------ C37 ----------------------------------- *)
\* the backoff wait at q is the first one of its segment send
FirstBackoff(q) == IsBackoff(q) /\ BackoffRank(q) = 1

\* a wait that doubled the delay was made before q for another segment send
DoubledBefore(q) ==
    \E b \in Events : /\ b < q /\ IsBackoff(b) /\ BackoffRank(b) >= 2
                      /\ ~SameSend(b, q)

\* C37 Backoff state is local to one segment send: the first backoff wait of
\* every segment send lasts initial_delay, whatever retries and doublings
\* were made for earlier segments of the recipient or for earlier recipients.
C37_BackoffLocal ==
    \A q \in Events : FirstBackoff(q) => trace[q].secs = initial_delay

\* a later segment of a recipient starts its backoff at initial_delay after
\* an earlier segment of the same recipient doubled the delay
C37_Witness ==
    /\ initial_delay > 0
    /\ \E q \in Events :
          /\ FirstBackoff(q) /\ DoubledBefore(q)
          /\ trace[q].secs = initial_delay
          /\ \E b \in Events : /\ b < q /\ IsBackoff(b) /\ BackoffRank(b) >= 2
                               /\ trace[b].secs = 2 * initial_delay
                               /\ trace[b].r = trace[q].r /\ trace[b].seg < trace[q].seg

(* ------------------------------ C38 ----------------------------------- *)
\* send_sms is running, or has returned, on a message that fits max_length
ShortSend == entry \in {"sms", "bulk"} /\ Len(message) <= max_length

\* every transport call carries the message as it is, as the only segment,
\* and no wait was made between segments
SentVerbatim ==
    /\ \A p \in Events : IsCall(p) => (trace[p].body = message /\ trace[p].seg = 0)
    /\ \A p \in Events : ~(trace[p].kind = "sleep" /\ trace[p].why = "pacing")

\* send_sms returns what _send_single_sms returned to it
ReturnsSingleOutcome ==
    (pc = "single_ret" /\ ShortSend) => (SmsReturned' /\ ret' = ret /\ trace' = trace)

\* C38 Short messages are sent verbatim: when len(message) <= max_length,
\* send_sms hands the message to the transport unchanged, with no marker
\* and nothing trimmed, as a single segment, makes no inter-segment wait,
\* and its outcome is exactly the outcome of that one segment send.
C38_ShortVerbatim ==
    /\ [](ShortSend => SentVerbatim)
    /\ [][ReturnsSingleOutcome]_vars

\* in concatenated mode a message of 121 spaces went out as it is, in one
\* accepted call, and send_sms returned the outcome of that call
C38_Witness ==
    /\ SmsReturned /\ ~dry_run /\ ShortSend
    /\ message = MsgSpaces
    /\ ret[1].success /\ "attempts" \in DOMAIN ret[1]
    /\ \E p \in CallsTo(ri) : trace[p].why = "ok" /\ trace[p].body = MsgSpaces

(* ------------------------------ C39 ----------------------------------- *)
\* the outcome of a message sent in segments (lines 97-104 and 113-120)
IsMultiOutcome(o) == "total_segments" \in DOMAIN o

MultiOutcomeShape(o) ==
    LET n == Len(o.details) IN
    /\ 0 <= o.segments_sent /\ o.segments_sent <= o.total_segments
    /\ o.success <=> (o.segments_sent = o.total_segments)
    /\ IF o.success
       THEN /\ n = o.total_segments
            /\ \A k \in 1..n : o.details[k].success
       ELSE /\ n = o.segments_sent + 1
            /\ \A k \in 1..(n - 1) : o.details[k].success
            /\ ~o.details[n].success

\* C39 Shape of a multi-segment outcome: 0 <= segments_sent <=
\* total_segments; success is true exactly when segments_sent =
\* total_segments; a failure has segments_sent + 1 details, all successes but
\* the last, which is the failure; a success has total_segments details, all
\* successes.
C39_MultiOutcomeShape ==
    /\ (SmsReturned /\ multi) => (IsMultiOutcome(ret[1]) /\ MultiOutcomeShape(ret[1]))
    /\ entry = "bulk" =>
          \A i \in 1..Len(results.details) :
            IsMultiOutcome(results.details[i]) => MultiOutcomeShape(results.details[i])

\* in a batch, one recipient got both segments and the next one failed on
\* the last of them: two details, the first a success, the second the failure
C39_Witness ==
    /\ entry = "bulk" /\ ~dry_run /\ Len(results.details) >= 2
    /\ \E i, j \in 1..Len(results.details) :
          LET a == results.details[i]
              b == results.details[j]
          IN /\ IsMultiOutcome(a) /\ a.success
             /\ a.total_segments = 2 /\ Len(a.details) = 2
             /\ IsMultiOutcome(b) /\ ~b.success
             /\ b.segments_sent = 1 /\ b.total_segments = 2 /\ Len(b.details) = 2
             /\ b.details[1].success /\ ~b.details[2].success

=============================================================================
